---- MODULE Spec2Model ----
(***************************************************************************)
(* A model of the request/response protocol layer of iars: the task-search *)
(* request builder (src/src/tasks/search.rs), its call() with the          *)
(* streaming JSON decoding of the response, the pagination loop of the     *)
(* documentation example, the error classification (src/src/tasks.rs,      *)
(* src/src/item.rs), the item operations (src/src/item.rs), the task log   *)
(* retrieval (src/src/tasks.rs), the header rendering                      *)
(* (src/src/headers.rs) and the credentials (src/src/lib.rs).              *)
(***************************************************************************)
EXTENDS Integers, Sequences, FiniteSets, TLC

VARIABLES
    request,    \* the search::Request value being built / called
    item,       \* the result of Item::new and the builder calls after it
    ops,        \* history: how many builder calls were applied to `request`, and the
                \* arguments given to with_limit (the last) and with_filter (per kind, in order)
    pc,         \* position of the caller: "build", "loop", "free", "done", "failed", "ops",
                \* "env", "loaded", "attach"
    cursor,     \* the pagination loop's local `cursor` (Option<String>)
    http,       \* history: the HTTP requests issued, in order
    pages,      \* the pagination loop's record of its calls: the cursor passed, the
                \* kind of result and the cursor returned
    last,       \* the last operation: the transport outcome and the full result returned
    env,        \* the process environment: AWS_ACCESS_KEY_ID and AWS_SECRET_ACCESS_KEY
    ureq_req,   \* the ureq::Request that headers are being attached to
    attached,   \* history: the Header values given to set_header, in order
    server      \* the answers of the server to the two pagination sequences: the
                \* outcome for each sequence and cursor

vars == <<request, item, ops, pc, cursor, http, pages, last, env, ureq_req, attached, server>>

(***************************************************************************)
(* Bounds of the model.                                                    *)
(***************************************************************************)
MaxOps == 3
MaxCalls == 3
MaxFreeCalls == 2
MaxOpCalls == 1
MaxHeaders == 3

(***************************************************************************)
(* Option<T>: None is the empty tuple, Some(x) the one-element tuple.      *)
(***************************************************************************)
None == <<>>
Some(x) == <<x>>
IsSome(o) == Len(o) = 1
IsNone(o) == Len(o) = 0
Unwrap(o) == o[1]

(***************************************************************************)
(* Integer formatting (`to_string` of usize / isize).                      *)
(***************************************************************************)
DigitChar(d) ==
    CASE d = 0 -> "0" [] d = 1 -> "1" [] d = 2 -> "2" [] d = 3 -> "3"
      [] d = 4 -> "4" [] d = 5 -> "5" [] d = 6 -> "6" [] d = 7 -> "7"
      [] d = 8 -> "8" [] d = 9 -> "9"

RECURSIVE UsizeToString(_)
UsizeToString(n) ==
    IF n < 10 THEN DigitChar(n)
    ELSE UsizeToString(n \div 10) \o DigitChar(n % 10)

IsizeToString(n) ==
    IF n < 0 THEN "-" \o UsizeToString(0 - n) ELSE UsizeToString(n)

BoolToStringDisplay(b) == IF b THEN "true" ELSE "false"

\* `b as usize` / `b as u8` followed by to_string()
BoolToString(b) == UsizeToString(IF b THEN 1 ELSE 0)

Min(a, b) == IF a < b THEN a ELSE b

(***************************************************************************)
(* Program constants.                                                      *)
(***************************************************************************)
DEFAULT_USER_AGENT == "iars <https://crates.io/crates/iars>"
DEFAULT_LIMIT == 50
LIMIT_CEILING == 500

(***************************************************************************)
(* tasks::Status                                                           *)
(***************************************************************************)
Status == {"Queued", "Running", "Error", "Paused"}

\* Status::wait_admin
wait_admin(s) ==
    CASE s = "Queued" -> 0 [] s = "Running" -> 1 [] s = "Error" -> 2 [] s = "Paused" -> 9

StatusWaitAdminMisprint(s) ==
    CASE s = "Queued" -> "0" [] s = "Running" -> "1" [] s = "Error" -> "2" [] s = "Paused" -> "3"

\* impl fmt::Display for Status
StatusToString(s) ==
    CASE s = "Queued" -> "0" [] s = "Running" -> "1" [] s = "Error" -> "2" [] s = "Paused" -> "9"

(***************************************************************************)
(* search::Filter: a variant kind and its payload.                         *)
(***************************************************************************)
Filter(kind, val) == [kind |-> kind, val |-> val]

FilterKinds ==
    <<"Identifier", "TaskId", "Server", "Command", "Submitter", "Priority", "State",
      "SubmitTimeGt", "SubmitTimeLt", "SubmitTimeGte", "SubmitTimeLte">>

\* The payloads the builder is driven with, per variant kind.
FilterPayloads(kind) ==
    CASE kind = "Identifier" -> {"test_item", "te*t_%"}
      [] kind = "TaskId" -> {0, 1234}
      [] kind = "Server" -> {"ia600501.us.archive.org", "ia*.us.*"}
      [] kind = "Command" -> {"derive.php", "*.php"}
      [] kind = "Submitter" -> {"user@example.org", "*@example.org"}
      [] kind = "Priority" -> {0 - 10, 0}
      [] kind = "State" -> Status
      [] kind = "SubmitTimeGt" -> {"2020-01-01", "2021-06-30 12:00:00"}
      [] kind = "SubmitTimeLt" -> {"2020-01-01", "2021-06-30 12:00:00"}
      [] kind = "SubmitTimeGte" -> {"2020-01-01", "2021-06-30 12:00:00"}
      [] kind = "SubmitTimeLte" -> {"2020-01-01", "2021-06-30 12:00:00"}

FilterKeyPasted(kind) ==
    CASE kind = "Identifier" -> "identifier"
      [] kind = "TaskId" -> "task_id"
      [] kind = "Server" -> "server"
      [] kind = "Command" -> "cmd"
      [] kind = "Submitter" -> "submitter"
      [] kind = "Priority" -> "priority"
      [] kind = "State" -> "wait_admin"
      [] kind = "SubmitTimeGt" -> "submittime>"
      [] kind = "SubmitTimeLt" -> "submittime<"
      [] kind = "SubmitTimeGte" -> "submittime>"
      [] kind = "SubmitTimeLte" -> "submittime<"

\* The `match filter` of with_filter: the wire key of a variant ...
FilterKey(kind) ==
    CASE kind = "Identifier" -> "identifier"
      [] kind = "TaskId" -> "task_id"
      [] kind = "Server" -> "server"
      [] kind = "Command" -> "cmd"
      [] kind = "Submitter" -> "submitter"
      [] kind = "Priority" -> "priority"
      [] kind = "State" -> "wait_admin"
      [] kind = "SubmitTimeGt" -> "submittime>"
      [] kind = "SubmitTimeLt" -> "submittime<"
      [] kind = "SubmitTimeGte" -> "submittime>="
      [] kind = "SubmitTimeLte" -> "submittime<="

\* ... and the wire value of its payload.
FilterVal(filter) ==
    CASE filter.kind = "TaskId" -> UsizeToString(filter.val)
      [] filter.kind = "Priority" -> IsizeToString(filter.val)
      [] filter.kind = "State" -> StatusToString(filter.val)
      [] OTHER -> filter.val

(***************************************************************************)
(* HashMap<String, String>: a function from the keys present to values.    *)
(***************************************************************************)
EmptyMap == [k \in {} |-> ""]

HashMapInsertKeepFirst(m, key, val) ==
    [k \in DOMAIN m \cup {key} |-> IF k \in DOMAIN m THEN m[k] ELSE val]

HashMapInsert(m, key, val) ==
    [k \in DOMAIN m \cup {key} |-> IF k = key THEN val ELSE m[k]]

(***************************************************************************)
(* Credentials                                                             *)
(***************************************************************************)
Credentials(access, secret) == [access |-> access, secret |-> secret]

CredentialChoices ==
    {None, Some(Credentials("accesskey", "secretkey")), Some(Credentials("", ""))}

\* Credentials::new: the two keys are stored as given.
Credentials_new(access, secret) == Credentials(access, secret)

\* The process environment.  A variable is unset, or set to a value that is
\* valid Unicode (`text`) or not (for which `text` stands for its bytes).
EnvNames == {"AWS_ACCESS_KEY_ID", "AWS_SECRET_ACCESS_KEY"}
OsValue(unicode, text) == [unicode |-> unicode, text |-> text]
EmptyEnv == [key \in EnvNames |-> None]

\* std::env::var
std_env_var(e, key) ==
    IF IsNone(e[key]) THEN [ok |-> FALSE, v |-> "NotPresent"]
    ELSE IF ~Unwrap(e[key]).unicode THEN [ok |-> FALSE, v |-> "NotUnicode"]
    ELSE [ok |-> TRUE, v |-> Unwrap(e[key]).text]

try_from_env_swapped(e) ==
    LET access == std_env_var(e, "AWS_SECRET_ACCESS_KEY")
        secret == std_env_var(e, "AWS_ACCESS_KEY_ID")
    IN  IF ~access.ok THEN None
        ELSE IF ~secret.ok THEN None
        ELSE IF access.v = "" \/ secret.v = "" THEN None
        ELSE Some(Credentials(access.v, secret.v))

\* Credentials::try_from_env
try_from_env(e) ==
    LET access == std_env_var(e, "AWS_ACCESS_KEY_ID")
        secret == std_env_var(e, "AWS_SECRET_ACCESS_KEY")
    IN  IF ~access.ok THEN None
        ELSE IF ~secret.ok THEN None
        ELSE IF access.v = "" \/ secret.v = "" THEN None
        ELSE Some(Credentials(access.v, secret.v))

(***************************************************************************)
(* search::Request and its builder methods.  `hasher` stands for the       *)
(* RandomState inside `filters`, which fixes the map's iteration order.    *)
(***************************************************************************)
RequestDefault(hasher) ==
    [ credentials |-> None,
      useragent |-> DEFAULT_USER_AGENT,
      filters |-> EmptyMap,
      hasher |-> hasher,
      summary |-> TRUE,
      catalog |-> FALSE,
      history |-> FALSE,
      limit |-> DEFAULT_LIMIT ]

\* with_credentials that leaves the stored credentials when given None.
with_credentials_none_ignored(self, credentials) ==
    IF credentials = <<>> THEN self ELSE [self EXCEPT !.credentials = credentials]

with_credentials(self, credentials) == [self EXCEPT !.credentials = credentials]

\* with_useragent testing only for an absent argument.
with_useragent_empty_stored(self, useragent) ==
    IF IsNone(useragent)
    THEN [self EXCEPT !.useragent = DEFAULT_USER_AGENT]
    ELSE [self EXCEPT !.useragent = Unwrap(useragent)]

with_useragent(self, useragent) ==
    IF IsNone(useragent) \/ Unwrap(useragent) = ""
    THEN [self EXCEPT !.useragent = DEFAULT_USER_AGENT]
    ELSE [self EXCEPT !.useragent = Unwrap(useragent)]

with_categories(self, summary, catalog, history) ==
    [self EXCEPT !.summary = summary, !.catalog = catalog, !.history = history]

with_limit_unclamped(self, limit) == [self EXCEPT !.limit = limit]

with_limit(self, limit) == [self EXCEPT !.limit = Min(limit, LIMIT_CEILING)]

with_filter_accumulating(self, filter) ==
    [self EXCEPT !.filters = HashMapInsertKeepFirst(self.filters, FilterKey(filter.kind), FilterVal(filter))]

with_filter(self, filter) ==
    [self EXCEPT !.filters = HashMapInsert(self.filters, FilterKey(filter.kind), FilterVal(filter))]

(***************************************************************************)
(* The builder as a state machine: one action per builder method.          *)
(***************************************************************************)
LimitChoices == {0, 7, 500, 501, 10000}
UseragentChoices == {None, Some(""), Some("my-agent/1.0")}

FilterKindSet == {FilterKinds[i] : i \in 1..Len(FilterKinds)}

NoOps == [n |-> 0, limit |-> None, given |-> [k \in FilterKindSet |-> <<>>]]

\* The history after one more builder call.
Counted(o) == [o EXCEPT !.n = o.n + 1]

Idle == [outcome |-> "none", result |-> "none"]

\* No Item has been created.
NoItem == [tag |-> "none", v |-> "none"]

\* A request together with the history of how it was built, and the builder
\* methods on such a pair.
Built(req, hist) == [request |-> req, ops |-> hist]
Fresh(hasher) == Built(RequestDefault(hasher), NoOps)
Credentialed(b, c) == Built(with_credentials(b.request, c), Counted(b.ops))
Useragented(b, u) == Built(with_useragent(b.request, u), Counted(b.ops))
Categorised(b, s, c, h) == Built(with_categories(b.request, s, c, h), Counted(b.ops))
Limited(b, n) == Built(with_limit(b.request, n), Counted([b.ops EXCEPT !.limit = Some(n)]))
Filtered(b, f) ==
    Built(with_filter(b.request, f), Counted([b.ops EXCEPT !.given[f.kind] = Append(@, f.val)]))

Current == Built(request, ops)
Becomes(b) == request' = b.request /\ ops' = b.ops

InitBuild ==
    /\ \E h \in {0, 1} : request = Fresh(h).request
    /\ item = NoItem
    /\ ops = NoOps
    /\ pc = "build"
    /\ cursor = None
    /\ http = <<>>
    /\ pages = <<>>
    /\ last = Idle
    /\ env = EmptyEnv
    /\ ureq_req = None
    /\ attached = <<>>
    /\ server = <<>>

Building == pc = "build" /\ ops.n < MaxOps

WithCredentials ==
    /\ Building
    /\ \E c \in CredentialChoices : Becomes(Credentialed(Current, c))
    /\ UNCHANGED <<item, pc, cursor, http, pages, last, env, ureq_req, attached, server>>

WithUseragent ==
    /\ Building
    /\ \E u \in UseragentChoices : Becomes(Useragented(Current, u))
    /\ UNCHANGED <<item, pc, cursor, http, pages, last, env, ureq_req, attached, server>>

WithCategories ==
    /\ Building
    /\ \E s \in BOOLEAN, c \in BOOLEAN, h \in BOOLEAN : Becomes(Categorised(Current, s, c, h))
    /\ UNCHANGED <<item, pc, cursor, http, pages, last, env, ureq_req, attached, server>>

WithLimit ==
    /\ Building
    /\ \E n \in LimitChoices : Becomes(Limited(Current, n))
    /\ UNCHANGED <<item, pc, cursor, http, pages, last, env, ureq_req, attached, server>>

WithFilter ==
    /\ Building
    /\ \E i \in 1..Len(FilterKinds) :
        \E p \in FilterPayloads(FilterKinds[i]) : Becomes(Filtered(Current, Filter(FilterKinds[i], p)))
    /\ UNCHANGED <<item, pc, cursor, http, pages, last, env, ureq_req, attached, server>>

NextBuild ==
    \/ WithCredentials
    \/ WithUseragent
    \/ WithCategories
    \/ WithLimit
    \/ WithFilter

SpecBuild == InitBuild /\ [][NextBuild]_vars

(***************************************************************************)
(* The outgoing HTTP request of call().                                    *)
(***************************************************************************)
\* Header names that start with "x-": ureq's `set` appends these, and replaces
\* an earlier header of the same name for every other name.
\* The names given to XMeta in this model, and the header names that start
\* with "x-".
MetaNames == {"collection", "title", "size-hint"}
MetaHeaderNameShort(name) == "x-archive-" \o name

\* `format!("x-archive-meta-{name}")`
MetaHeaderName(name) == "x-archive-meta-" \o name

XHeaderNames ==
    {"x-amz-auto-make-bucket", "x-archive-cascade-delete", "x-archive-ignore-preexisting-bucket",
     "x-archive-keep-old-version", "x-archive-queue-derive", "x-archive-size-hint"}
    \cup {MetaHeaderName(n) : n \in MetaNames}

StartsWithX(name) == name \in XHeaderNames

SetInFront(req, name, value) ==
    LET kept == IF StartsWithX(name) THEN req.headers
                ELSE SelectSeq(req.headers, LAMBDA h : h[1] # name)
    IN  [req EXCEPT !.headers = << <<name, value>> >> \o kept]

\* ureq::Request::set
Set(req, name, value) ==
    LET kept == IF StartsWithX(name) THEN req.headers
                ELSE SelectSeq(req.headers, LAMBDA h : h[1] # name)
    IN  [req EXCEPT !.headers = Append(kept, <<name, value>>)]

\* ureq::Request::query
Query(req, param, value) == [req EXCEPT !.query = Append(@, <<param, value>>)]

\* headers::Header: a variant and its payload.
Header(variant, payload) == [variant |-> variant, payload |-> payload]

HeaderFromCredentialsSwapped(creds) ==
    Header("Authorization", [access |-> creds.secret, secret |-> creds.access])

\* From<&Credentials> for Header
HeaderFromCredentials(creds) ==
    Header("Authorization", [access |-> creds.access, secret |-> creds.secret])

\* RequestHeaderExt::set_header
set_header(req, header) ==
    LET val == header.payload
    IN  CASE header.variant = "ContentLength" -> Set(req, "content-length", UsizeToString(val))
          [] header.variant = "Authorization" ->
                Set(req, "authorization", "LOW " \o val.access \o ":" \o val.secret)
          [] header.variant = "ContentType" -> Set(req, "content-type", val)
          [] header.variant = "ContentMd5" -> Set(req, "content-md5", val)
          [] header.variant = "XAutoMakeBucket" ->
                Set(req, "x-amz-auto-make-bucket", BoolToString(val))
          [] header.variant = "XCascadeDelete" ->
                Set(req, "x-archive-cascade-delete", BoolToString(val))
          [] header.variant = "XIgnorePreexistingBucket" ->
                Set(req, "x-archive-ignore-preexisting-bucket", BoolToString(val))
          [] header.variant = "XKeepOldVersion" ->
                Set(req, "x-archive-keep-old-version", BoolToString(val))
          [] header.variant = "XMeta" -> Set(req, MetaHeaderName(val.name), val.value)
          [] header.variant = "XQueueDerive" ->
                Set(req, "x-archive-queue-derive", BoolToString(val))
          [] header.variant = "XSizeHint" -> Set(req, "x-archive-size-hint", UsizeToString(val))
          [] header.variant = "Custom" -> Set(req, val[1], val[2])

\* `req.set_header(creds.into())`
SetAuthorization(req, creds) == set_header(req, HeaderFromCredentials(creds))

\* `self.filters.iter()`: the entries in the order the map's hasher fixes.
RECURSIVE FiltersIter(_, _, _)
FiltersIter(filters, hasher, i) ==
    IF i > Len(FilterKinds) THEN <<>>
    ELSE LET j == IF hasher = 0 THEN i ELSE Len(FilterKinds) + 1 - i
             key == FilterKey(FilterKinds[j])
         IN  (IF key \in DOMAIN filters THEN << <<key, filters[key]>> >> ELSE <<>>)
             \o FiltersIter(filters, hasher, i + 1)

\* ureq::Request::query_pairs
RECURSIVE QueryPairs(_, _)
QueryPairs(req, pairs) ==
    IF pairs = <<>> THEN req
    ELSE QueryPairs(Query(req, pairs[1][1], pairs[1][2]), Tail(pairs))

SEARCH_URL == "https://archive.org/services/tasks.php"

CallRequestHistoryChecked(self, cur) ==
    LET r0 == [method |-> "GET", url |-> SEARCH_URL, headers |-> <<>>, query |-> <<>>]
        r1 == Set(r0, "user-agent", self.useragent)
        r2 == QueryPairs(r1, FiltersIter(self.filters, self.hasher, 1))
        r3 == Query(r2, "summary", BoolToString(self.summary))
        r4 == Query(r3, "catalog", BoolToString(self.catalog))
        r5 == Query(r4, "history",
                    BoolToString(self.history /\ {"identifier", "task_id"} \cap DOMAIN self.filters # {}))
        r6 == Query(r5, "limit", UsizeToString(self.limit))
        r7 == IF IsSome(cur) THEN Query(r6, "cursor", Unwrap(cur)) ELSE r6
    IN  IF IsSome(self.credentials) THEN SetAuthorization(r7, Unwrap(self.credentials)) ELSE r7

CallRequestCursorAlways(self, cur) ==
    LET r0 == [method |-> "GET", url |-> SEARCH_URL, headers |-> <<>>, query |-> <<>>]
        r1 == Set(r0, "user-agent", self.useragent)
        r2 == QueryPairs(r1, FiltersIter(self.filters, self.hasher, 1))
        r3 == Query(r2, "summary", BoolToString(self.summary))
        r4 == Query(r3, "catalog", BoolToString(self.catalog))
        r5 == Query(r4, "history", BoolToString(self.history))
        r6 == Query(r5, "limit", UsizeToString(self.limit))
        r7 == Query(r6, "cursor", IF IsSome(cur) THEN Unwrap(cur) ELSE "")
    IN  IF IsSome(self.credentials) THEN SetAuthorization(r7, Unwrap(self.credentials)) ELSE r7

\* Request::call up to `req.call()`: the request that is sent.
CallRequest(self, cur) ==
    LET r0 == [method |-> "GET", url |-> SEARCH_URL, headers |-> <<>>, query |-> <<>>]
        r1 == Set(r0, "user-agent", self.useragent)
        r2 == QueryPairs(r1, FiltersIter(self.filters, self.hasher, 1))
        r3 == Query(r2, "summary", BoolToString(self.summary))
        r4 == Query(r3, "catalog", BoolToString(self.catalog))
        r5 == Query(r4, "history", BoolToString(self.history))
        r6 == Query(r5, "limit", UsizeToString(self.limit))
        r7 == IF IsSome(cur) THEN Query(r6, "cursor", Unwrap(cur)) ELSE r6
    IN  IF IsSome(self.credentials) THEN SetAuthorization(r7, Unwrap(self.credentials)) ELSE r7

\* The values a sent request carries under a query parameter / header name.
QueryValues(req, param) ==
    {req.query[i][2] : i \in {j \in 1..Len(req.query) : req.query[j][1] = param}}

HeaderValues(req, name) ==
    {req.headers[i][2] : i \in {j \in 1..Len(req.headers) : req.headers[j][1] = name}}

CursorChoices == {None, Some("a")}

(***************************************************************************)
(* Claims about the builder (checked under SpecBuild).                     *)
(***************************************************************************)
\* The kinds with_filter was called with, and the last payload given to each.
GivenKinds == {k \in FilterKindSet : ops.given[k] # <<>>}
LastGiven(k) == ops.given[k][Len(ops.given[k])]
\* The payloads of kind k given before the last one and different from it.
Overwritten(k) ==
    {ops.given[k][i] : i \in {j \in 1..Len(ops.given[k]) : ops.given[k][j] # LastGiven(k)}}
FilterValuesPresent == {request.filters[key] : key \in DOMAIN request.filters}

\* C1 as stated: after with_filter(K(p1)) ... with_filter(K(p2)) the mapping
\* holds one entry under K's key, its value is the rendering of p2, and the
\* rendering of p1 is not present anywhere in the mapping.
C1_AsStated ==
    \A k \in GivenKinds :
        /\ FilterKey(k) \in DOMAIN request.filters
        /\ request.filters[FilterKey(k)] = FilterVal(Filter(k, LastGiven(k)))
        /\ \A p1 \in Overwritten(k) : FilterVal(Filter(k, p1)) \notin FilterValuesPresent

\* C1 (amended): the mapping holds exactly one entry per kind given, under the
\* kind's wire key; its value is the rendering of the last payload given and
\* differs from the rendering of every overwritten payload of that kind (which
\* may still be present under the key of another kind).
C1_LastWriteWins ==
    /\ DOMAIN request.filters = {FilterKey(k) : k \in GivenKinds}
    /\ Cardinality(DOMAIN request.filters) = Cardinality(GivenKinds)
    /\ \A k \in GivenKinds :
        /\ request.filters[FilterKey(k)] = FilterVal(Filter(k, LastGiven(k)))
        /\ \A p1 \in Overwritten(k) :
               request.filters[FilterKey(k)] # FilterVal(Filter(k, p1))

C1_Witness ==
    \E k \in GivenKinds, k2 \in GivenKinds :
        /\ k # k2
        /\ Overwritten(k) # {}

\* C2: the stored limit is 50 if with_limit was never called, otherwise the
\* last argument clamped to 500 (so at most 500), and the request call() sends
\* carries exactly the stored limit, whatever the cursor.
ExpectedLimit ==
    IF IsNone(ops.limit) THEN 50
    ELSE IF Unwrap(ops.limit) > 500 THEN 500 ELSE Unwrap(ops.limit)

C2_LimitClamped ==
    /\ request.limit <= 500
    /\ request.limit = ExpectedLimit
    /\ \A c \in CursorChoices :
           QueryValues(CallRequest(request, c), "limit") = {UsizeToString(ExpectedLimit)}

C2_Witness ==
    /\ ops.limit = Some(10000)
    /\ request.limit = 500
    /\ ops.n = 2

(***************************************************************************)
(* The response body as the JSON tokens the decoder reads.  White space    *)
(* between tokens is skipped by every step of the decoder and is left out. *)
(***************************************************************************)
TStr(str) == [t |-> "str", v |-> str]
TNum(n) == [t |-> "num", v |-> n]
TP(c) == [t |-> c, v |-> 0]
EOF == TP("eof")

Peek(toks, pos) == IF pos > Len(toks) THEN EOF ELSE toks[pos]

IsScalar(tok) == tok.t \in {"str", "num", "true", "false", "null"}

\* What the server writes: a JSON array / object of already rendered values.
RECURSIVE JoinComma(_)
JoinComma(items) ==
    IF items = <<>> THEN <<>>
    ELSE IF Len(items) = 1 THEN items[1]
    ELSE items[1] \o <<TP(",")>> \o JoinComma(Tail(items))

JsonArray(items) == <<TP("[")>> \o JoinComma(items) \o <<TP("]")>>

RECURSIVE MemberToks(_)
MemberToks(members) ==
    IF members = <<>> THEN <<>>
    ELSE << <<TStr(members[1][1]), TP(":")>> \o members[1][2] >> \o MemberToks(Tail(members))

JsonObject(members) == <<TP("{")>> \o JoinComma(MemberToks(members)) \o <<TP("}")>>

JsonString(str) == <<TStr(str)>>
JsonNumber(n) == <<TNum(n)>>
JsonBool(b) == IF b THEN <<TP("true")>> ELSE <<TP("false")>>
JsonNull == <<TP("null")>>

(***************************************************************************)
(* The shapes the decoder is derived for (#[derive(Deserialize)]).         *)
(***************************************************************************)
TyBool == [k |-> "bool"]
TyString == [k |-> "string"]
TyUsize == [k |-> "usize"]
TyIsize == [k |-> "isize"]
TyHashMap == [k |-> "hashmap"]
TyStatus == [k |-> "status"]
TyOption(ty) == [k |-> "option", of |-> ty]
TyVec(ty) == [k |-> "vec", of |-> ty]
TyStruct(fields) == [k |-> "struct", fields |-> fields]
\* #[serde(deserialize_with = "InnerValue::try_deserialize")]
TyTryDeserialize(ty) == [k |-> "try_deserialize", of |-> ty]

\* A field: its Rust name, its wire key, its type, and whether #[serde(default)].
Field(name, key, ty, default) == [name |-> name, key |-> key, ty |-> ty, default |-> default]

TyCatalogEntry ==
    TyStruct(<< Field("args", "args", TyHashMap, FALSE),
                Field("cmd", "cmd", TyString, FALSE),
                Field("identifier", "identifier", TyString, FALSE),
                Field("priority", "priority", TyIsize, FALSE),
                Field("server", "server", TyOption(TyString), FALSE),
                Field("status", "status", TyStatus, FALSE),
                Field("submitter", "submitter", TyString, FALSE),
                Field("submit_time", "submittime", TyString, FALSE),
                Field("task_id", "task_id", TyUsize, FALSE) >>)

TyHistoryEntry ==
    TyStruct(<< Field("args", "args", TyHashMap, FALSE),
                Field("cmd", "cmd", TyString, FALSE),
                Field("finished", "finished", TyUsize, FALSE),
                Field("identifier", "identifier", TyString, FALSE),
                Field("priority", "priority", TyIsize, FALSE),
                Field("server", "server", TyString, FALSE),
                Field("submitter", "submitter", TyString, FALSE),
                Field("submit_time", "submittime", TyString, FALSE),
                Field("task_id", "task_id", TyUsize, FALSE) >>)

TySummary ==
    TyStruct(<< Field("queued", "queued", TyUsize, FALSE),
                Field("running", "running", TyUsize, FALSE),
                Field("error", "error", TyUsize, FALSE),
                Field("paused", "paused", TyUsize, FALSE) >>)

TyInnerValue ==
    TyStruct(<< Field("catalog", "catalog", TyVec(TyCatalogEntry), TRUE),
                Field("history", "history", TyVec(TyHistoryEntry), TRUE),
                Field("summary", "summary", TyOption(TySummary), FALSE),
                Field("cursor", "cursor", TyOption(TyString), FALSE) >>)

TyInterimResponse ==
    TyStruct(<< Field("success", "success", TyBool, FALSE),
                Field("value", "value", TyTryDeserialize(TyInnerValue), FALSE) >>)

\* #[derive(Default)] of InnerValue
InnerValueDefault ==
    [catalog |-> <<>>, history |-> <<>>, summary |-> None, cursor |-> None]

\* #[serde(rename = ...)] of Status: the variant a wire name stands for.
StatusVariant(name) ==
    CASE name = "queued" -> Some("Queued")
      [] name = "running" -> Some("Running")
      [] name = "error" -> Some("Error")
      [] name = "paused" -> Some("Paused")
      [] OTHER -> None

(***************************************************************************)
(* The streaming decoder (serde_json::Deserializer driven by the derived   *)
(* visitors).  It reads the tokens left to right and never goes back: a    *)
(* result carries the position reached, also when it is an error.          *)
(***************************************************************************)
DeOk(v, pos) == [ok |-> TRUE, v |-> v, pos |-> pos]
DeErr(pos) == [ok |-> FALSE, v |-> "error", pos |-> pos]

\* Deserializer::peek_invalid_type: a scalar of the wrong type is read before
\* the error is reported; an opening bracket or brace is not.
PeekInvalidType(toks, pos) ==
    IF IsScalar(Peek(toks, pos)) THEN DeErr(pos + 1) ELSE DeErr(pos)

\* Deserializer::end_seq
EndSeq(toks, pos) ==
    CASE Peek(toks, pos).t = "]" -> DeOk(TRUE, pos + 1)
      [] Peek(toks, pos).t = "," -> DeErr(pos + 1)
      [] OTHER -> DeErr(pos)

\* Deserializer::end_map
EndMap(toks, pos) ==
    IF Peek(toks, pos).t = "}" THEN DeOk(TRUE, pos + 1) ELSE DeErr(pos)

\* `match (ret, self.end_seq())` / `match (ret, self.end_map())`
Both(ret, end) == [ok |-> ret.ok /\ end.ok, v |-> ret.v, pos |-> end.pos]

\* Deserializer::parse_object_colon
ObjectColon(toks, pos) ==
    IF Peek(toks, pos).t = ":" THEN DeOk(TRUE, pos + 1) ELSE DeErr(pos)

\* SeqAccess::next_element_seed up to the element: where the next element
\* starts ("some"), that the array ends here ("none"), or an error.
NextElement(toks, pos, first) ==
    LET tok == Peek(toks, pos)
    IN  CASE tok.t = "eof" -> [tag |-> "err", pos |-> pos]
          [] tok.t = "]" -> [tag |-> "none", pos |-> pos]
          [] tok.t = "," /\ ~first ->
                IF Peek(toks, pos + 1).t \in {"]", "eof"}
                THEN [tag |-> "err", pos |-> pos + 1]
                ELSE [tag |-> "some", pos |-> pos + 1]
          [] OTHER ->
                IF first THEN [tag |-> "some", pos |-> pos]
                ELSE [tag |-> "err", pos |-> pos]

\* MapAccess::next_key_seed: the next key and the position after it ("key"),
\* that the object ends here ("none"), or an error.
NextKey(toks, pos, first) ==
    LET tok == Peek(toks, pos)
        p2 == IF tok.t = "," /\ ~first THEN pos + 1 ELSE pos
        t2 == Peek(toks, p2)
    IN  IF tok.t = "eof" THEN [tag |-> "err", key |-> "", pos |-> pos]
        ELSE IF tok.t = "}" THEN [tag |-> "none", key |-> "", pos |-> pos]
        ELSE IF tok.t # "," /\ ~first THEN [tag |-> "err", key |-> "", pos |-> pos]
        ELSE IF t2.t = "str" THEN [tag |-> "key", key |-> t2.v, pos |-> p2 + 1]
        ELSE [tag |-> "err", key |-> "", pos |-> p2]

FieldNames(ty) == {ty.fields[i].name : i \in 1..Len(ty.fields)}

\* The derived __FieldVisitor: the index of the field a wire key names, 0 for
\* a key that is ignored.
FieldIndex(ty, key) ==
    IF \E i \in 1..Len(ty.fields) : ty.fields[i].key = key
    THEN CHOOSE i \in 1..Len(ty.fields) : ty.fields[i].key = key
    ELSE 0

\* The value of a field no member gave: Default::default() under
\* #[serde(default)], None for an Option (serde's missing_field).
MissingValue(field) == IF field.default THEN <<>> ELSE None

MissingIsError(field) == ~field.default /\ field.ty.k # "option"

\* The end of the derived visit_map: every field is given, defaulted, or missing.
StructFinish(ty, acc, pos) ==
    IF \E i \in 1..Len(ty.fields) :
          ty.fields[i].name \notin DOMAIN acc /\ MissingIsError(ty.fields[i])
    THEN DeErr(pos)
    ELSE DeOk([n \in FieldNames(ty) |->
                  IF n \in DOMAIN acc THEN acc[n]
                  ELSE MissingValue(ty.fields[CHOOSE i \in 1..Len(ty.fields) : ty.fields[i].name = n])],
              pos)

try_deserialize_propagating(inner) == inner

\* InnerValue::try_deserialize: `Ok(InnerValue::deserialize(deserializer)
\* .unwrap_or_else(|_| Default::default()))`.  The error is dropped; what the
\* failed attempt has read stays read.
try_deserialize(inner) ==
    DeOk(IF inner.ok THEN inner.v ELSE InnerValueDefault, inner.pos)

RECURSIVE De(_, _, _)
RECURSIVE VecLoop(_, _, _, _, _)
RECURSIVE HashMapLoop(_, _, _, _)
RECURSIVE StructMapLoop(_, _, _, _, _)
RECURSIVE StructSeqLoop(_, _, _, _, _, _)
RECURSIVE SkipValue(_, _)
RECURSIVE SkipSeq(_, _, _)
RECURSIVE SkipMap(_, _, _)

\* Deserializer::ignore_value (IgnoredAny): one whole JSON value is read.
SkipValue(toks, pos) ==
    LET tok == Peek(toks, pos)
    IN  CASE IsScalar(tok) -> DeOk(TRUE, pos + 1)
          [] tok.t = "[" -> SkipSeq(toks, pos + 1, TRUE)
          [] tok.t = "{" -> SkipMap(toks, pos + 1, TRUE)
          [] OTHER -> DeErr(pos)

SkipSeq(toks, pos, first) ==
    LET tok == Peek(toks, pos)
        p2 == IF tok.t = "," /\ ~first THEN pos + 1 ELSE pos
        r == SkipValue(toks, p2)
    IN  IF tok.t = "]" THEN DeOk(TRUE, pos + 1)
        ELSE IF tok.t # "," /\ ~first THEN DeErr(pos)
        ELSE IF r.ok THEN SkipSeq(toks, r.pos, FALSE)
        ELSE r

SkipMap(toks, pos, first) ==
    LET tok == Peek(toks, pos)
        p2 == IF tok.t = "," /\ ~first THEN pos + 1 ELSE pos
        c == ObjectColon(toks, p2 + 1)
        r == SkipValue(toks, c.pos)
    IN  IF tok.t = "}" THEN DeOk(TRUE, pos + 1)
        ELSE IF tok.t # "," /\ ~first THEN DeErr(pos)
        ELSE IF Peek(toks, p2).t # "str" THEN DeErr(p2)
        ELSE IF ~c.ok THEN c
        ELSE IF r.ok THEN SkipMap(toks, r.pos, FALSE)
        ELSE r

\* The visit_seq of Vec<T>.
VecLoop(ty, toks, pos, first, acc) ==
    LET n == NextElement(toks, pos, first)
        r == De(ty, toks, n.pos)
    IN  IF n.tag = "err" THEN DeErr(n.pos)
        ELSE IF n.tag = "none" THEN DeOk(acc, n.pos)
        ELSE IF r.ok THEN VecLoop(ty, toks, r.pos, FALSE, Append(acc, r.v))
        ELSE DeErr(r.pos)

\* The visit_map of HashMap<String, String>.
HashMapLoop(toks, pos, first, acc) ==
    LET n == NextKey(toks, pos, first)
        c == ObjectColon(toks, n.pos)
        r == De(TyString, toks, c.pos)
    IN  IF n.tag = "err" THEN DeErr(n.pos)
        ELSE IF n.tag = "none" THEN DeOk(acc, n.pos)
        ELSE IF ~c.ok THEN DeErr(c.pos)
        ELSE IF r.ok THEN HashMapLoop(toks, r.pos, FALSE, HashMapInsert(acc, n.key, r.v))
        ELSE DeErr(r.pos)

\* The derived visit_map of a struct.
StructMapLoop(ty, toks, pos, first, acc) ==
    LET n == NextKey(toks, pos, first)
        i == FieldIndex(ty, n.key)
        c == ObjectColon(toks, n.pos)
        skipped == SkipValue(toks, c.pos)
        r == De(ty.fields[i].ty, toks, c.pos)
    IN  IF n.tag = "err" THEN DeErr(n.pos)
        ELSE IF n.tag = "none" THEN StructFinish(ty, acc, n.pos)
        ELSE IF i # 0 /\ ty.fields[i].name \in DOMAIN acc THEN DeErr(n.pos)
        ELSE IF ~c.ok THEN DeErr(c.pos)
        ELSE IF i = 0
             THEN (IF skipped.ok THEN StructMapLoop(ty, toks, skipped.pos, FALSE, acc)
                   ELSE DeErr(skipped.pos))
        ELSE IF r.ok
             THEN StructMapLoop(ty, toks, r.pos, FALSE, HashMapInsert(acc, ty.fields[i].name, r.v))
        ELSE DeErr(r.pos)

\* The derived visit_seq of a struct: the fields in declaration order.
StructSeqLoop(ty, toks, pos, first, i, acc) ==
    LET n == NextElement(toks, pos, first)
        r == De(ty.fields[i].ty, toks, n.pos)
    IN  IF i > Len(ty.fields) THEN DeOk([f \in FieldNames(ty) |-> acc[f]], pos)
        ELSE IF n.tag = "err" THEN DeErr(n.pos)
        ELSE IF n.tag = "none"
             THEN (IF ty.fields[i].default
                   THEN StructSeqLoop(ty, toks, n.pos, first, i + 1,
                                      HashMapInsert(acc, ty.fields[i].name, <<>>))
                   ELSE DeErr(n.pos))
        ELSE IF r.ok
             THEN StructSeqLoop(ty, toks, r.pos, FALSE, i + 1,
                                HashMapInsert(acc, ty.fields[i].name, r.v))
        ELSE DeErr(r.pos)

\* The unit-variant enum Status: a string, or an object {"variant": null}.
DeStatus(toks, pos) ==
    LET tok == Peek(toks, pos)
        name == Peek(toks, pos + 1)
        c == ObjectColon(toks, pos + 2)
    IN  IF tok.t = "str"
        THEN (IF IsSome(StatusVariant(tok.v)) THEN DeOk(Unwrap(StatusVariant(tok.v)), pos + 1)
              ELSE DeErr(pos + 1))
        ELSE IF tok.t # "{" THEN DeErr(pos)
        ELSE IF name.t # "str" THEN PeekInvalidType(toks, pos + 1)
        ELSE IF IsNone(StatusVariant(name.v)) THEN DeErr(pos + 2)
        ELSE IF ~c.ok THEN DeErr(c.pos)
        ELSE IF Peek(toks, c.pos).t # "null" THEN PeekInvalidType(toks, c.pos)
        ELSE IF Peek(toks, c.pos + 1).t # "}" THEN DeErr(c.pos + 1)
        ELSE DeOk(Unwrap(StatusVariant(name.v)), c.pos + 2)

\* T::deserialize(&mut Deserializer) for each shape.  At the end of the input
\* every arm is an error (EOF is no scalar, bracket or brace).
De(ty, toks, pos) ==
    LET tok == Peek(toks, pos)
        inner == De(ty.of, toks, pos)
    IN  CASE ty.k = "bool" ->
                IF tok.t \in {"true", "false"} THEN DeOk(tok.t = "true", pos + 1)
                ELSE PeekInvalidType(toks, pos)
          [] ty.k = "string" ->
                IF tok.t = "str" THEN DeOk(tok.v, pos + 1) ELSE PeekInvalidType(toks, pos)
          [] ty.k = "usize" ->
                IF tok.t = "num" THEN (IF tok.v >= 0 THEN DeOk(tok.v, pos + 1) ELSE DeErr(pos + 1))
                ELSE PeekInvalidType(toks, pos)
          [] ty.k = "isize" ->
                IF tok.t = "num" THEN DeOk(tok.v, pos + 1) ELSE PeekInvalidType(toks, pos)
          [] ty.k = "status" -> DeStatus(toks, pos)
          [] ty.k = "option" ->
                IF tok.t = "null" THEN DeOk(None, pos + 1)
                ELSE IF inner.ok THEN DeOk(Some(inner.v), inner.pos) ELSE inner
          [] ty.k = "vec" ->
                IF tok.t = "[" THEN
                    LET ret == VecLoop(ty.of, toks, pos + 1, TRUE, <<>>)
                    IN  Both(ret, EndSeq(toks, ret.pos))
                ELSE PeekInvalidType(toks, pos)
          [] ty.k = "hashmap" ->
                IF tok.t = "{" THEN
                    LET ret == HashMapLoop(toks, pos + 1, TRUE, EmptyMap)
                    IN  Both(ret, EndMap(toks, ret.pos))
                ELSE PeekInvalidType(toks, pos)
          [] ty.k = "struct" ->
                CASE tok.t = "[" ->
                        LET ret == StructSeqLoop(ty, toks, pos + 1, TRUE, 1, EmptyMap)
                        IN  Both(ret, EndSeq(toks, ret.pos))
                  [] tok.t = "{" ->
                        LET ret == StructMapLoop(ty, toks, pos + 1, TRUE, EmptyMap)
                        IN  Both(ret, EndMap(toks, ret.pos))
                  [] OTHER -> PeekInvalidType(toks, pos)
          [] ty.k = "try_deserialize" -> try_deserialize(inner)

ResponseFromDropsCursor(resp) ==
    [ success |-> resp.success,
      catalog |-> resp.value.catalog,
      history |-> resp.value.history,
      summary |-> resp.value.summary,
      cursor |-> None ]

\* From<InterimResponse> for Response
ResponseFrom(resp) ==
    [ success |-> resp.success,
      catalog |-> resp.value.catalog,
      history |-> resp.value.history,
      summary |-> resp.value.summary,
      cursor |-> resp.value.cursor ]

\* ureq's Response::into_json::<Response>(): serde_json::from_reader, which
\* decodes one value and then requires the end of the input.
FromReader(r, toks) ==
    IF r.ok /\ r.pos > Len(toks)
    THEN [ok |-> TRUE, v |-> ResponseFrom(r.v)]
    ELSE [ok |-> FALSE, v |-> "InvalidData"]

IntoJson(toks) == FromReader(De(TyInterimResponse, toks, 1), toks)

(***************************************************************************)
(* The server: the response bodies it may send.  A body is described by    *)
(* its tokens and by what the server meant: the outer envelope ("ok": an   *)
(* object with a boolean `success` and a `value`; "no_value": `value` is   *)
(* left out; "array_form": the array [success, value]; "bad": anything     *)
(* else), the success flag, the shape of `value` ("object": a well-formed  *)
(* object carrying some of the four members, "empty_array", "other") and,  *)
(* for "object", the data rendered (None for a member left out).           *)
(***************************************************************************)
RECURSIVE PairsToMap(_)
PairsToMap(pairs) ==
    IF pairs = <<>> THEN EmptyMap
    ELSE HashMapInsert(PairsToMap(Tail(pairs)), pairs[1][1], pairs[1][2])

RECURSIVE StringPairsJson(_)
StringPairsJson(pairs) ==
    IF pairs = <<>> THEN <<>>
    ELSE << <<pairs[1][1], JsonString(pairs[1][2])>> >> \o StringPairsJson(Tail(pairs))

StatusWireName(st) ==
    CASE st = "Queued" -> "queued" [] st = "Running" -> "running"
      [] st = "Error" -> "error" [] st = "Paused" -> "paused"

Args1 == << <<"dir", "/27/items/test_item">>, <<"done", "delete">> >>
Args2 == <<>>

Catalog1 ==
    [ args |-> PairsToMap(Args1), cmd |-> "derive.php", identifier |-> "test_item",
      priority |-> 0, server |-> Some("ia600501.us.archive.org"), status |-> "Queued",
      submitter |-> "user@example.org", submit_time |-> "2020-01-01 00:00:00", task_id |-> 1234 ]

Catalog2 ==
    [ args |-> PairsToMap(Args2), cmd |-> "archive.php", identifier |-> "test_item",
      priority |-> 0 - 10, server |-> None, status |-> "Paused",
      submitter |-> "user@example.org", submit_time |-> "2021-06-30 12:00:00", task_id |-> 0 ]

History1 ==
    [ args |-> PairsToMap(Args1), cmd |-> "bup.php", finished |-> 1609459200,
      identifier |-> "test_item", priority |-> 5, server |-> "ia601302.us.archive.org",
      submitter |-> "user@example.org", submit_time |-> "2019-12-31 23:59:59", task_id |-> 77 ]

Summary1 == [queued |-> 1, running |-> 0, error |-> 2, paused |-> 9]

OptionStringJson(o) == IF IsSome(o) THEN JsonString(Unwrap(o)) ELSE JsonNull

CatalogEntryJson(e, args) ==
    JsonObject(<< <<"args", JsonObject(StringPairsJson(args))>>,
                  <<"cmd", JsonString(e.cmd)>>,
                  <<"identifier", JsonString(e.identifier)>>,
                  <<"priority", JsonNumber(e.priority)>>,
                  <<"server", OptionStringJson(e.server)>>,
                  <<"status", JsonString(StatusWireName(e.status))>>,
                  <<"submitter", JsonString(e.submitter)>>,
                  <<"submittime", JsonString(e.submit_time)>>,
                  <<"task_id", JsonNumber(e.task_id)>> >>)

HistoryEntryJson(e, args) ==
    JsonObject(<< <<"task_id", JsonNumber(e.task_id)>>,
                  <<"submittime", JsonString(e.submit_time)>>,
                  <<"submitter", JsonString(e.submitter)>>,
                  <<"server", JsonString(e.server)>>,
                  <<"priority", JsonNumber(e.priority)>>,
                  <<"identifier", JsonString(e.identifier)>>,
                  <<"finished", JsonNumber(e.finished)>>,
                  <<"cmd", JsonString(e.cmd)>>,
                  <<"args", JsonObject(StringPairsJson(args))>> >>)

SummaryJson(sm) ==
    JsonObject(<< <<"queued", JsonNumber(sm.queued)>>, <<"running", JsonNumber(sm.running)>>,
                  <<"error", JsonNumber(sm.error)>>, <<"paused", JsonNumber(sm.paused)>> >>)

Catalog1Json == CatalogEntryJson(Catalog1, Args1)
Catalog2Json == CatalogEntryJson(Catalog2, Args2)
History1Json == HistoryEntryJson(History1, Args1)

\* The data of a well-formed `value` object: per member, None when left out.
InnerData(catalog, history, summary, cur) ==
    [catalog |-> catalog, history |-> history, summary |-> summary, cursor |-> cur]

NoData == InnerData(None, None, None, None)

\* Per member, the data and its rendering when the member is present.
CatalogData == <<Catalog1, Catalog2>>
CatalogJson == JsonArray(<<Catalog1Json, Catalog2Json>>)
HistoryData == <<History1>>
HistoryJson == JsonArray(<<History1Json>>)

\* The well-formed `value` object carrying the members of the subset `mask`
\* (bit 1: catalog, 2: history, 4: summary, 8: cursor), in this order.
Bit(mask, b) == (mask \div b) % 2 = 1

ObjectData(mask, cur) ==
    InnerData(IF Bit(mask, 1) THEN Some(CatalogData) ELSE None,
              IF Bit(mask, 2) THEN Some(HistoryData) ELSE None,
              IF Bit(mask, 4) THEN Some(Summary1) ELSE None,
              IF Bit(mask, 8) THEN Some(cur) ELSE None)

ObjectJson(mask, cur) ==
    JsonObject((IF Bit(mask, 1) THEN << <<"catalog", CatalogJson>> >> ELSE <<>>)
               \o (IF Bit(mask, 2) THEN << <<"history", HistoryJson>> >> ELSE <<>>)
               \o (IF Bit(mask, 4) THEN << <<"summary", SummaryJson(Summary1)>> >> ELSE <<>>)
               \o (IF Bit(mask, 8) THEN << <<"cursor", JsonString(cur)>> >> ELSE <<>>))

Envelope(success, value) ==
    JsonObject(<< <<"success", JsonBool(success)>>, <<"value", value>> >>)

Body(toks, envelope, success, shape, data) ==
    [toks |-> toks, envelope |-> envelope, success |-> success, shape |-> shape, data |-> data]

\* {"success": s, "value": <well-formed object>}
ObjectBody(success, mask, cur) ==
    Body(Envelope(success, ObjectJson(mask, cur)), "ok", success, "object", ObjectData(mask, cur))

\* {"success": s, "value": <anything else>}
OtherBody(success, value) == Body(Envelope(success, value), "ok", success, "other", NoData)

ObjectBodies == [m \in 1..16 |-> ObjectBody(TRUE, m - 1, IF m % 2 = 0 THEN "a" ELSE "b")]

\* {"success": s, "value": []}
EmptyArrayBody(success) ==
    Body(Envelope(success, JsonArray(<<>>)), "ok", success, "empty_array", NoData)

CursorMember(cur) == <<"cursor", JsonString(cur)>>
CatalogOf(entries) == <<"catalog", JsonArray(entries)>>

\* Catalog entries that do not decode: a required field is missing; the
\* status is not one of the four known.
CatalogLacksFields == JsonObject(<< <<"cmd", JsonString("derive.php")>> >>)
CatalogUnknownStatus ==
    JsonObject(<< <<"args", JsonObject(<<>>)>>,
                  <<"cmd", JsonString("derive.php")>>,
                  <<"identifier", JsonString("test_item")>>,
                  <<"priority", JsonNumber(0)>>,
                  <<"server", JsonNull>>,
                  <<"status", JsonString("waiting")>>,
                  <<"submitter", JsonString("user@example.org")>>,
                  <<"submittime", JsonString("2020-01-01 00:00:00")>>,
                  <<"task_id", JsonNumber(1)>> >>)

NegativeSummary ==
    JsonObject(<< <<"queued", JsonNumber(0 - 1)>>, <<"running", JsonNumber(0)>>,
                  <<"error", JsonNumber(0)>>, <<"paused", JsonNumber(0)>> >>)

\* Well-formed objects in other renderings: the example of the documentation
\* (one catalog entry and a cursor), an unknown member in between, `value`
\* before `success`, a further member in the envelope, success = false.
ExampleData == InnerData(Some(<<Catalog1>>), None, None, Some("abc"))
ExampleJson == JsonObject(<<CatalogOf(<<Catalog1Json>>), CursorMember("abc")>>)

VariantBodies ==
    << Body(Envelope(TRUE, ExampleJson), "ok", TRUE, "object", ExampleData),
       Body(Envelope(TRUE, JsonObject(<<CatalogOf(<<Catalog1Json>>),
                                        <<"total", JsonObject(<< <<"pages", JsonArray(<<JsonNumber(3)>>)>> >>)>>,
                                        CursorMember("abc")>>)),
            "ok", TRUE, "object", ExampleData),
       Body(JsonObject(<< <<"value", ExampleJson>>, <<"success", JsonBool(TRUE)>> >>),
            "ok", TRUE, "object", ExampleData),
       Body(JsonObject(<< <<"success", JsonBool(TRUE)>>, <<"value", ExampleJson>>,
                          <<"took", JsonNumber(12)>> >>),
            "ok", TRUE, "object", ExampleData),
       ObjectBody(FALSE, 0, "a"),
       ObjectBody(FALSE, 9, "a"),
       EmptyArrayBody(TRUE),
       EmptyArrayBody(FALSE) >>

\* `value` of any other shape.
OtherBodies ==
    << OtherBody(TRUE, JsonNull),
       OtherBody(TRUE, JsonNumber(5)),
       OtherBody(FALSE, JsonString("nothing")),
       OtherBody(TRUE, JsonBool(TRUE)),
       OtherBody(TRUE, JsonArray(<<JsonNumber(1), JsonNumber(2)>>)),
       OtherBody(TRUE, JsonArray(<<JsonArray(<<>>), JsonArray(<<>>), JsonNull, JsonString("a")>>)),
       OtherBody(TRUE, JsonObject(<< <<"catalog", JsonNumber(5)>>, CursorMember("a")>>)),
       OtherBody(TRUE, JsonObject(<<CursorMember("a"), <<"catalog", JsonNumber(5)>> >>)),
       OtherBody(TRUE, JsonObject(<<CatalogOf(<<CatalogLacksFields>>), CursorMember("a")>>)),
       OtherBody(TRUE, JsonObject(<<CursorMember("a"), CatalogOf(<<CatalogLacksFields>>)>>)),
       OtherBody(TRUE, JsonObject(<<CatalogOf(<<Catalog1Json, CatalogUnknownStatus>>), CursorMember("b")>>)),
       OtherBody(TRUE, JsonObject(<< <<"cursor", JsonNumber(5)>> >>)),
       OtherBody(TRUE, JsonObject(<<CursorMember("a"), CursorMember("b")>>)),
       OtherBody(TRUE, JsonObject(<< <<"summary", NegativeSummary>>, CursorMember("a")>>)) >>

\* Envelopes without `value`, in array form, and broken ones: no `success`,
\* not an object, empty, cut off, `success` of the wrong type, text after it.
EnvelopeBodies ==
    << Body(JsonObject(<< <<"success", JsonBool(TRUE)>> >>), "no_value", TRUE, "other", NoData),
       Body(JsonObject(<< <<"success", JsonBool(FALSE)>> >>), "no_value", FALSE, "other", NoData),
       Body(JsonArray(<<JsonBool(TRUE), ExampleJson>>), "array_form", TRUE, "object", ExampleData),
       Body(JsonObject(<< <<"value", ObjectJson(0, "a")>> >>), "bad", FALSE, "other", NoData),
       Body(JsonArray(<<>>), "bad", FALSE, "other", NoData),
       Body(JsonNumber(5), "bad", FALSE, "other", NoData),
       Body(<<>>, "bad", FALSE, "other", NoData),
       Body(SubSeq(Envelope(TRUE, ExampleJson), 1, 6), "bad", FALSE, "other", NoData),
       Body(JsonObject(<< <<"success", JsonString("yes")>>, <<"value", ObjectJson(0, "a")>> >>),
            "bad", FALSE, "other", NoData),
       Body(Envelope(TRUE, ObjectJson(8, "a")) \o JsonNumber(5), "bad", FALSE, "other", NoData) >>

Bodies == ObjectBodies \o VariantBodies \o OtherBodies \o EnvelopeBodies

(***************************************************************************)
(* The transport: what one HTTP exchange may end in.                       *)
(***************************************************************************)
\* transport: the exchange failed before a status was received; code: the
\* status; read: how reading the body ends ("ok", "reset", "timeout");
\* body: which of Bodies was sent.
Outcome(transport, code, read, body) ==
    [transport |-> transport, code |-> code, read |-> read, body |-> body]

ErrorCodes == {400, 401, 403, 404, 409, 500}
ErrorBodies == {1, Len(Bodies) - 3}

Outcomes ==
    {Outcome(TRUE, 0, "ok", 0)}
    \cup {Outcome(FALSE, c, "ok", b) : c \in ErrorCodes, b \in ErrorBodies}
    \cup {Outcome(FALSE, 200, r, 0) : r \in {"reset", "timeout"}}
    \cup {Outcome(FALSE, 200, "ok", b) : b \in 1..Len(Bodies)}

\* ureq::Error
UreqTransport == [kind |-> "Transport", code |-> 0, body |-> 0]
UreqStatus(code, body) == [kind |-> "Status", code |-> code, body |-> body]

\* ureq::Request::call: a status of 400 or more is an error.
UreqCall(o) ==
    IF o.transport THEN [ok |-> FALSE, v |-> UreqTransport]
    ELSE IF o.code >= 400 THEN [ok |-> FALSE, v |-> UreqStatus(o.code, o.body)]
    ELSE [ok |-> TRUE, v |-> o]

\* The decoding of each body, computed once.
RECURSIVE DecodeFirst(_)
DecodeFirst(n) ==
    IF n = 0 THEN <<>> ELSE Append(DecodeFirst(n - 1), IntoJson(Bodies[n].toks))

DecodedBodies == DecodeFirst(Len(Bodies))

\* ureq::Response::into_json: an error while reading and an error of the
\* decoder both become an io::Error.
ResponseIntoJson(resp) ==
    IF resp.read = "timeout" THEN [ok |-> FALSE, v |-> "TimedOut"]
    ELSE IF resp.read = "reset" THEN [ok |-> FALSE, v |-> "InvalidData"]
    ELSE DecodedBodies[resp.body]

(***************************************************************************)
(* tasks::TaskError and the result of search::Request::call.               *)
(***************************************************************************)
Result(tag, v) == [tag |-> tag, v |-> v]

TaskErrorFromIoAsUreq(value) == Result("Ureq", value)

\* From<std::io::Error> for TaskError
TaskErrorFromIo(value) == Result("Io", value)

TaskErrorFromUreqUnauthorized(value) ==
    IF value.kind = "Status" /\ value.code \in {401, 403} THEN Result("Forbidden", value.body)
    ELSE Result("Ureq", value)

\* From<ureq::Error> for TaskError
TaskErrorFromUreq(value) ==
    IF value.kind = "Status" /\ value.code = 403 THEN Result("Forbidden", value.body)
    ELSE Result("Ureq", value)

\* `Ok(req.call()?.into_json()?)`: the `?` on each of the two results.
TryIntoJson(json) ==
    IF ~json.ok THEN TaskErrorFromIo(json.v) ELSE Result("Ok", json.v)

TryCallOrDefault(resp) ==
    IF ~resp.ok
    THEN Result("Ok", [success |-> FALSE, catalog |-> <<>>, history |-> <<>>,
                       summary |-> None, cursor |-> None])
    ELSE TryIntoJson(ResponseIntoJson(resp.v))

TryCall(resp) ==
    IF ~resp.ok THEN TaskErrorFromUreq(resp.v) ELSE TryIntoJson(ResponseIntoJson(resp.v))

CallResult(o) == TryCall(UreqCall(o))

CallSelfKeepsCursor(self, cur) ==
    IF IsSome(cur) THEN [self EXCEPT !.filters = HashMapInsert(@, "cursor", Unwrap(cur))]
    ELSE self

\* Request::call takes `&self`: the request after the call.
CallSelf(self, cur) == self

(***************************************************************************)
(* The callers of call(): the pagination loop of the documentation example *)
(* ("loop") and a caller that passes any cursor and goes on after errors   *)
(* ("free").  Both start from a request the builder has produced.          *)
(***************************************************************************)
ExampleCredentials == Credentials("accesskey", "secretkey")

Recipes ==
    << Fresh(0),
       Filtered(Categorised(Credentialed(Fresh(0), Some(ExampleCredentials)), TRUE, TRUE, TRUE),
                Filter("Identifier", "test_item")),
       Categorised(Filtered(Limited(Fresh(1), 10000), Filter("Identifier", "te*t_%")),
                   FALSE, FALSE, TRUE),
       Limited(Filtered(Filtered(Fresh(0), Filter("TaskId", 1234)), Filter("State", "Paused")), 0),
       Limited(Filtered(Filtered(Fresh(1), Filter("TaskId", 1234)), Filter("State", "Paused")), 0),
       Credentialed(Credentialed(Useragented(Fresh(0), Some("my-agent/1.0")),
                                 Some(ExampleCredentials)), None),
       Categorised(Filtered(Fresh(1), Filter("Submitter", "*@example.org")), TRUE, FALSE, TRUE) >>

Init ==
    /\ \E i \in 1..Len(Recipes) : request = Recipes[i].request /\ ops = Recipes[i].ops
    /\ item = NoItem
    /\ pc \in {"loop", "free"}
    /\ cursor = None
    /\ http = <<>>
    /\ pages = <<>>
    /\ last = Idle
    /\ env = EmptyEnv
    /\ ureq_req = None
    /\ attached = <<>>
    /\ server = <<>>

Page(cur, result) ==
    [cursor |-> cur, tag |-> result.tag,
     next |-> IF result.tag = "Ok" THEN result.v.cursor ELSE None]

LoopBodyNeverBreaks(o, result) ==
    /\ http' = Append(http, CallRequest(request, cursor))
    /\ request' = CallSelf(request, cursor)
    /\ last' = [outcome |-> o, result |-> result]
    /\ pages' = Append(pages, Page(cursor, result))
    /\ IF result.tag # "Ok"
       THEN pc' = "failed" /\ cursor' = cursor
       ELSE cursor' = result.v.cursor /\ pc' = "loop"

\* One iteration of the loop: `let resp = request.call(cursor)?;
\* cursor = resp.cursor.clone(); responses.push(resp);
\* if cursor.is_none() { break; }`
LoopBody(o, result) ==
    /\ http' = Append(http, CallRequest(request, cursor))
    /\ request' = CallSelf(request, cursor)
    /\ last' = [outcome |-> o, result |-> result]
    /\ pages' = Append(pages, Page(cursor, result))
    /\ IF result.tag # "Ok"
       THEN pc' = "failed" /\ cursor' = cursor
       ELSE /\ cursor' = result.v.cursor
            /\ pc' = IF IsNone(result.v.cursor) THEN "done" ELSE "loop"

LoopCall ==
    /\ pc = "loop"
    /\ Len(http) < MaxCalls
    /\ \E o \in Outcomes : LoopBody(o, CallResult(o))
    /\ UNCHANGED <<item, ops, env, ureq_req, attached, server>>

FreeCall ==
    /\ pc = "free"
    /\ Len(http) < MaxFreeCalls
    /\ \E cur \in CursorChoices, o \in Outcomes :
        /\ http' = Append(http, CallRequest(request, cur))
        /\ request' = CallSelf(request, cur)
        /\ last' = [outcome |-> o, result |-> CallResult(o)]
    /\ UNCHANGED <<item, ops, pc, cursor, pages, env, ureq_req, attached, server>>

Next ==
    \/ LoopCall
    \/ FreeCall

Spec == Init /\ [][Next]_vars

(***************************************************************************)
(* Items (src/src/item.rs) and the task log (src/src/tasks.rs).            *)
(* An identifier is the sequence of its characters.                        *)
(***************************************************************************)
MAX_IDENTIFIER_LEN == 100
MAX_LEN == 1073741824

AsciiAlphanumeric ==
    {"a", "b", "c", "d", "e", "f", "g", "h", "i", "j", "k", "l", "m",
     "n", "o", "p", "q", "r", "s", "t", "u", "v", "w", "x", "y", "z",
     "A", "B", "C", "D", "E", "F", "G", "H", "I", "J", "K", "L", "M",
     "N", "O", "P", "Q", "R", "S", "T", "U", "V", "W", "X", "Y", "Z",
     "0", "1", "2", "3", "4", "5", "6", "7", "8", "9"}

\* str::len counts the bytes of the UTF-8 encoding, not the characters.
TwoByteChars == {"é"}
Utf8Width(c) == IF c \in TwoByteChars THEN 2 ELSE 1

RECURSIVE StrLen(_)
StrLen(ident) == IF ident = <<>> THEN 0 ELSE Utf8Width(ident[1]) + StrLen(Tail(ident))

\* validate_identifier with the length test off by one.
validate_identifier_below_limit(ident) ==
    IF Len(ident) = 0 \/ StrLen(ident) >= MAX_IDENTIFIER_LEN THEN FALSE
    ELSE IF ident[1] \notin AsciiAlphanumeric THEN FALSE
    ELSE \A i \in 2..Len(ident) : ident[i] \in AsciiAlphanumeric \cup {"_", "-", "."}

\* crate::validate_identifier
validate_identifier(ident) ==
    IF Len(ident) = 0 \/ StrLen(ident) > MAX_IDENTIFIER_LEN THEN FALSE
    ELSE IF ident[1] \notin AsciiAlphanumeric THEN FALSE
    ELSE \A i \in 2..Len(ident) : ident[i] \in AsciiAlphanumeric \cup {"_", "-", "."}

\* The String of a sequence of characters.
RECURSIVE Chars(_)
Chars(ident) == IF ident = <<>> THEN "" ELSE ident[1] \o Chars(Tail(ident))

\* Item::new
Item_new(ident) ==
    IF ~validate_identifier(ident) THEN Result("InvalidIdentifier", Chars(ident))
    ELSE Result("Ok", [ identifier |-> Chars(ident),
                        credentials |-> None,
                        keep_old_versions |-> FALSE,
                        auto_make_bucket |-> TRUE,
                        use_test_collection |-> FALSE,
                        useragent |-> DEFAULT_USER_AGENT ])

\* Item::with_credentials, with_useragent, with_keep_old_versions, with_auto_make
Item_with_credentials(self, credentials) == [self EXCEPT !.credentials = credentials]

Item_with_useragent(self, useragent) ==
    IF IsNone(useragent) \/ Unwrap(useragent) = ""
    THEN [self EXCEPT !.useragent = DEFAULT_USER_AGENT]
    ELSE [self EXCEPT !.useragent = Unwrap(useragent)]

Item_with_keep_old_versions(self, keep_old_versions) ==
    [self EXCEPT !.keep_old_versions = keep_old_versions]

Item_with_auto_make(self, auto_make_bucket) ==
    [self EXCEPT !.auto_make_bucket = auto_make_bucket]

\* From<ureq::Error> for ItemError, From<std::io::Error> for ItemError,
\* From<serde_xml_rs::Error> for ItemError
ItemErrorFromUreq(value) ==
    IF value.kind = "Status" /\ value.code = 403 THEN Result("Forbidden", value.body)
    ELSE Result("Ureq", value)

ItemErrorFromIo(value) == Result("Io", value)

ItemErrorFromXml(value) == Result("XmlParseFailed", value)

\* What an exchange of an item operation or of the log retrieval may end in:
\* as Outcome, with the content-length header of the response (absent, or its
\* text) and whether the body is a document of the kind the operation expects.
OpOutcome(transport, code, read, body, length, valid) ==
    [transport |-> transport, code |-> code, read |-> read, body |-> body,
     length |-> length, valid |-> valid]

LengthChoices == {None, Some("12"), Some("1073741825"), Some("12 bytes")}

OpOutcomes ==
    {OpOutcome(TRUE, 0, "ok", 0, None, FALSE)}
    \cup {OpOutcome(FALSE, c, "ok", b, None, FALSE) : c \in ErrorCodes, b \in {0, 1}}
    \cup {OpOutcome(FALSE, 200, "ok", 0, l, v) : l \in LengthChoices, v \in BOOLEAN}
    \cup {OpOutcome(FALSE, 200, "reset", 0, None, TRUE)}

\* str::parse::<usize>() on the texts of LengthChoices.
ParseUsize(str) ==
    LET known == {n \in {12, MAX_LEN + 1} : UsizeToString(n) = str}
    IN  IF known = {} THEN None ELSE Some(CHOOSE n \in known : TRUE)

\* `resp.header("content-length").unwrap_or("").parse().unwrap_or(MAX_LEN)`
ContentLength(resp) ==
    LET parsed == ParseUsize(IF IsSome(resp.length) THEN Unwrap(resp.length) ELSE "")
    IN  IF IsSome(parsed) THEN Unwrap(parsed) ELSE MAX_LEN

\* `?` on the result of req.call() / req.send(): the error converted, or the
\* rest of the operation applied to the response.
ItemTry(resp, rest) == IF ~resp.ok THEN ItemErrorFromUreq(resp.v) ELSE rest

\* Item::upload_file: the request sent, and the result for an outcome.
RECURSIVE SetMeta(_, _)
SetMeta(req, initial_meta) ==
    IF initial_meta = <<>> THEN req
    ELSE SetMeta(set_header(req, Header("XMeta", [name |-> initial_meta[1][1],
                                                   value |-> initial_meta[1][2]])),
                 Tail(initial_meta))

UploadRequest(self, derive, initial_meta, filepath, size) ==
    LET r0 == [method |-> "PUT",
               url |-> "https://s3.us.archive.org/" \o self.identifier \o "/" \o filepath,
               headers |-> <<>>, query |-> <<>>]
        r1 == Set(r0, "user-agent", self.useragent)
        r2 == set_header(r1, Header("XKeepOldVersion", self.keep_old_versions))
        r3 == set_header(r2, Header("XAutoMakeBucket", self.auto_make_bucket))
        r4 == set_header(r3, Header("XQueueDerive", derive))
        r5 == set_header(r4, Header("XSizeHint", size))
        r6 == Set(r5, "content-length", UsizeToString(size))
        r7 == SetMeta(r6, initial_meta)
    IN  IF IsSome(self.credentials) THEN SetAuthorization(r7, Unwrap(self.credentials)) ELSE r7

UploadResult(o) == ItemTry(UreqCall(o), Result("Ok", o))

\* Item::list, Item::download_file and Item::metadata send the same kind of
\* request to their URL.
ItemGet(self, url) ==
    LET r0 == [method |-> "GET", url |-> url, headers |-> <<>>, query |-> <<>>]
        r1 == Set(r0, "user-agent", self.useragent)
    IN  IF IsSome(self.credentials) THEN SetAuthorization(r1, Unwrap(self.credentials)) ELSE r1

ListRequest(self) == ItemGet(self, "https://s3.us.archive.org/" \o self.identifier)

\* Item::list after `req.call()?`: todo!() panics on a larger length;
\* serde_xml_rs::from_reader fails on a broken read or another document.
ListRest(resp) ==
    IF ContentLength(resp) > MAX_LEN THEN Result("panic", "todo")
    ELSE IF resp.read # "ok" \/ ~resp.valid THEN ItemErrorFromXml("error")
    ELSE Result("Ok", "contents")

ListResult(o) == ItemTry(UreqCall(o), ListRest(o))

DownloadRequest(self, filepath) ==
    ItemGet(self, "https://archive.org/download/" \o self.identifier \o "/" \o filepath)

\* Item::download_file after `req.call()?`: std::io::copy into the writer.
DownloadRest(resp, writer_ok) ==
    IF resp.read # "ok" \/ ~writer_ok THEN ItemErrorFromIo("error")
    ELSE Result("Ok", "bytes")

DownloadResult(o, writer_ok) == ItemTry(UreqCall(o), DownloadRest(o, writer_ok))

MetadataRequest(self) == ItemGet(self, "https://archive.org/metadata/" \o self.identifier)

\* Item::metadata after `req.call()?`.
MetadataRest(resp) ==
    IF ContentLength(resp) > MAX_LEN THEN Result("panic", "todo")
    ELSE IF resp.read # "ok" \/ ~resp.valid THEN ItemErrorFromIo("InvalidData")
    ELSE Result("Ok", "metadata")

MetadataResult(o) == ItemTry(UreqCall(o), MetadataRest(o))

\* tasks::log: the request sent, and the Result<ureq::Response, ureq::Error>
\* returned as it comes from ureq.
LOG_URL == "https://catalogd.archive.org/services/tasks.php"

LogRequest(task_id, creds, useragent) ==
    LET r0 == [method |-> "GET", url |-> LOG_URL, headers |-> <<>>, query |-> <<>>]
        r1 == Query(r0, "task_log", UsizeToString(task_id))
        r2 == Set(r1, "user-agent",
                  IF IsNone(useragent) \/ Unwrap(useragent) = "" THEN DEFAULT_USER_AGENT
                  ELSE Unwrap(useragent))
    IN  set_header(r2, HeaderFromCredentials(creds))

LogReturn(resp) == IF resp.ok THEN Result("Ok", resp.v) ELSE Result(resp.v.kind, resp.v)

LogResult(o) == LogReturn(UreqCall(o))

(***************************************************************************)
(* A caller of the operations that perform an HTTP exchange: the item      *)
(* operations on an Item made by Item::new and its builder methods, the    *)
(* task log retrieval and the task search call.                            *)
(***************************************************************************)
TestIdentifier == <<"t", "e", "s", "t", "_", "i", "t", "e", "m">>
TestItem == Item_new(TestIdentifier).v

ItemChoices ==
    << Item_new(TestIdentifier),
       Result("Ok", Item_with_credentials(TestItem, Some(ExampleCredentials))),
       Result("Ok", Item_with_auto_make(
                        Item_with_keep_old_versions(
                            Item_with_useragent(TestItem, Some("my-agent/1.0")), TRUE), FALSE)),
       Item_new(<<"_", "x">>) >>

MetaChoices == {<<>>, << <<"collection", "test_collection">>, <<"title", "A title">> >>}
TEST_FILEPATH == "a_directory/myfile.txt"

InitOps ==
    /\ request = Recipes[2].request
    /\ ops = Recipes[2].ops
    /\ \E i \in 1..Len(ItemChoices) : item = ItemChoices[i]
    /\ pc = "ops"
    /\ cursor = None
    /\ http = <<>>
    /\ pages = <<>>
    /\ last = Idle
    /\ env = EmptyEnv
    /\ ureq_req = None
    /\ attached = <<>>
    /\ server = <<>>

Operating == pc = "ops" /\ Len(http) < MaxOpCalls

\* The effect of an operation on the history.
Performed(op, sent, o, result) ==
    /\ http' = Append(http, sent)
    /\ last' = [op |-> op, outcome |-> o, result |-> result]
    /\ UNCHANGED <<request, item, ops, pc, cursor, pages, env, ureq_req, attached, server>>

UploadFile ==
    /\ Operating
    /\ item.tag = "Ok"
    /\ \E derive \in BOOLEAN, initial_meta \in MetaChoices, o \in OpOutcomes :
        Performed("upload_file", UploadRequest(item.v, derive, initial_meta, TEST_FILEPATH, 12),
                  o, UploadResult(o))

List ==
    /\ Operating
    /\ item.tag = "Ok"
    /\ \E o \in OpOutcomes : Performed("list", ListRequest(item.v), o, ListResult(o))

DownloadFile ==
    /\ Operating
    /\ item.tag = "Ok"
    /\ \E writer_ok \in BOOLEAN, o \in OpOutcomes :
        Performed("download_file", DownloadRequest(item.v, TEST_FILEPATH),
                  o, DownloadResult(o, writer_ok))

Metadata ==
    /\ Operating
    /\ item.tag = "Ok"
    /\ \E o \in OpOutcomes : Performed("metadata", MetadataRequest(item.v), o, MetadataResult(o))

Log ==
    /\ Operating
    /\ \E creds \in {ExampleCredentials, Credentials("", "")},
          useragent \in UseragentChoices, o \in OpOutcomes :
        Performed("log", LogRequest(1234, creds, useragent), o, LogResult(o))

SearchCall ==
    /\ Operating
    /\ \E o \in Outcomes :
        Performed("search_call", CallRequest(request, None), o, CallResult(o))

NextOps ==
    \/ UploadFile
    \/ List
    \/ DownloadFile
    \/ Metadata
    \/ Log
    \/ SearchCall

SpecOps == InitOps /\ [][NextOps]_vars

(***************************************************************************)
(* Claims about decoding, errors and pagination (checked under Spec).      *)
(***************************************************************************)
Called == Len(http) > 0
\* The last exchange completed with a success status and the body was read:
\* the decoder has run on it.
BodyDecoded ==
    Called /\ ~last.outcome.transport /\ last.outcome.code < 400 /\ last.outcome.read = "ok"
LastBody == Bodies[last.outcome.body]
AllDefaults(resp) ==
    resp.catalog = <<>> /\ resp.history = <<>> /\ resp.summary = None /\ resp.cursor = None
OrEmpty(opt) == IF IsSome(opt) THEN Unwrap(opt) ELSE <<>>

\* C3: a body with a well-formed envelope whose `value` is an empty array
\* decodes without error to empty catalog, empty history, absent summary and
\* absent cursor, with the success flag of the envelope.
C3_EmptyArrayDecodes ==
    (BodyDecoded /\ LastBody.envelope = "ok" /\ LastBody.shape = "empty_array")
    => /\ last.result.tag = "Ok"
       /\ AllDefaults(last.result.v)
       /\ last.result.v.success = LastBody.success

C3_Witness ==
    /\ BodyDecoded /\ LastBody.envelope = "ok" /\ LastBody.shape = "empty_array"
    /\ ~LastBody.success
    /\ last.result = Result("Ok", [success |-> FALSE, catalog |-> <<>>, history |-> <<>>,
                                   summary |-> None, cursor |-> None])

\* C4: when `value` is a well-formed object carrying a subset of catalog,
\* history, summary and cursor, decoding succeeds, every member present is
\* carried through unchanged, a missing catalog or history is the empty list
\* and a missing summary or cursor is absent.
C4_PartialObjectDecodes ==
    (BodyDecoded /\ LastBody.envelope = "ok" /\ LastBody.shape = "object")
    => last.result = Result("Ok", [success |-> LastBody.success,
                                   catalog |-> OrEmpty(LastBody.data.catalog),
                                   history |-> OrEmpty(LastBody.data.history),
                                   summary |-> LastBody.data.summary,
                                   cursor |-> LastBody.data.cursor])

C4_Witness ==
    /\ BodyDecoded /\ LastBody.envelope = "ok" /\ LastBody.shape = "object"
    /\ LastBody.data = ExampleData
    /\ last.result.tag = "Ok"
    /\ Len(last.result.v.catalog) = 1
    /\ last.result.v.history = <<>>
    /\ last.result.v.summary = None
    /\ last.result.v.cursor = Some("abc")

\* C5 as stated: for every body with a well-formed envelope, whatever the
\* shape of `value`, decoding succeeds; if `value` is not a well-formed
\* object the result has empty catalog and history, absent summary and cursor.
C5_FallbackTotal ==
    (BodyDecoded /\ LastBody.envelope = "ok")
    => /\ last.result.tag = "Ok"
       /\ LastBody.shape # "object" => AllDefaults(last.result.v)

\* C6 as stated: a body that is an object with only `success` decodes
\* successfully, with empty catalog and history, absent summary and cursor.
C6_AbsentValueDecodes ==
    (BodyDecoded /\ LastBody.envelope = "no_value")
    => last.result.tag = "Ok" /\ AllDefaults(last.result.v)

\* The discriminants of the other failures of the surface: a std::io::Error,
\* a transport failure, a 403.
IoErrorKinds == {"InvalidData", "TimedOut", "NotFound"}
OtherFailureTags ==
    {TaskErrorFromIo(kind).tag : kind \in IoErrorKinds}
    \cup {TaskErrorFromUreq(UreqTransport).tag}
    \cup {TaskErrorFromUreq(UreqStatus(403, b)).tag : b \in ErrorBodies}

EnvelopeUndecodable == BodyDecoded /\ LastBody.envelope = "bad"

C8_PaginationLoop ==
    /\ pc \in {"loop", "done", "failed"} => Len(http) = Len(pages)
    /\ \A i \in 1..Len(pages) :
        /\ pages[i].cursor = (IF i = 1 THEN None ELSE pages[i - 1].next)
        /\ QueryValues(http[i], "cursor") =
               (IF IsNone(pages[i].cursor) THEN {} ELSE {Unwrap(pages[i].cursor)})
        /\ i < Len(pages) => (pages[i].tag = "Ok" /\ IsSome(pages[i].next))
    /\ pc = "done" <=>
           (pages # <<>> /\ pages[Len(pages)].tag = "Ok" /\ IsNone(pages[Len(pages)].next))
    /\ pc = "failed" <=> (pages # <<>> /\ pages[Len(pages)].tag # "Ok")

C8_Witness ==
    /\ pc = "done"
    /\ Len(http) = 3
    /\ <<pages[1].next, pages[2].next, pages[3].next>> = <<Some("a"), Some("b"), None>>
    /\ <<QueryValues(http[1], "cursor"), QueryValues(http[2], "cursor"),
         QueryValues(http[3], "cursor")>> = <<{}, {"a"}, {"b"}>>

\* A sent request without its cursor parameter.
IsNotCursor(pair) == pair[1] # "cursor"
WithoutCursor(req) == [req EXCEPT !.query = SelectSeq(@, IsNotCursor)]

\* C9: a call leaves the request as it was, and every request sent so far is,
\* apart from the cursor parameter, the one built from the request's fields:
\* same filters, toggles, limit, user-agent and credentials on every call.
C9_CallLeavesRequest ==
    [][/\ request' = request
       /\ WithoutCursor(http'[1]) = CallRequest(request, None)
       /\ \A i \in 1..Len(http') : WithoutCursor(http'[i]) = WithoutCursor(http'[1])]_vars

C9_Witness ==
    /\ Len(http) = 3
    /\ http[1] # http[2]
    /\ http[2] # http[3]
    /\ request.filters # EmptyMap
    /\ IsSome(request.credentials)
    /\ last.result.tag # "Ok"

(***************************************************************************)
(* Claims about the operations (checked under SpecOps).                    *)
(***************************************************************************)
Answered403 == Called /\ ~last.outcome.transport /\ last.outcome.code = 403

\* C10 as stated: whatever operation performed the exchange (search call,
\* task log, upload_file, list, download_file, metadata) and whatever the
\* body, a response with status 403 is returned as the Forbidden variant.
C10_ForbiddenEverywhere ==
    Answered403 => last.result.tag = "Forbidden"

\* The operations whose error type is TaskError or ItemError: their `?`
\* converts the ureq::Error.
Classifying == {"search_call", "upload_file", "list", "download_file", "metadata"}

\* The ureq::Error of the last exchange, when it ended in one.
TransportFailed == Called /\ last.outcome.transport
StatusFailed == Called /\ ~last.outcome.transport /\ last.outcome.code >= 400
OriginalError ==
    IF last.outcome.transport THEN [kind |-> "Transport", code |-> 0, body |-> 0]
    ELSE [kind |-> "Status", code |-> last.outcome.code, body |-> last.outcome.body]

\* C11: an operation returns Forbidden only for a status error with code 403,
\* and where the error is converted into TaskError or ItemError, a status
\* error of code 403 is Forbidden while every other status error and every
\* transport error is the Ureq variant holding the ureq::Error as it came.
C11_ForbiddenOnly403 ==
    /\ Called /\ last.result.tag = "Forbidden" => Answered403
    /\ (TransportFailed \/ StatusFailed) /\ last.op \in Classifying =>
          IF Answered403 THEN last.result.tag = "Forbidden"
          ELSE last.result = Result("Ureq", OriginalError)

C11_Witness ==
    /\ StatusFailed
    /\ last.op = "search_call"
    /\ last.outcome.code = 401
    /\ last.result = Result("Ureq", OriginalError)

\* The body of the last exchange could not be read to its end.
ReadFailed ==
    Called /\ ~last.outcome.transport /\ last.outcome.code < 400 /\ last.outcome.read # "ok"

\* C12: every call sends exactly one request (the pagination loop has sent
\* as many requests as it has made calls), and a call whose exchange ends in
\* a transport error, a status error, a broken read or an undecodable
\* envelope returns the error of that exchange (Ureq or Forbidden for the
\* first two, Io for the last two), never a response.
C12_NoRetry ==
    [][ /\ Len(http') = Len(http) + 1
        /\ pc' # "free" => Len(pages') = Len(http')
        /\ (TransportFailed' \/ StatusFailed') => last'.result.tag \in {"Ureq", "Forbidden"}
        /\ (ReadFailed' \/ EnvelopeUndecodable') => last'.result.tag = "Io" ]_vars

C12_Witness ==
    /\ pc = "failed"
    /\ Len(http) = 2
    /\ Len(pages) = 2
    /\ StatusFailed
    /\ last.outcome.code = 500
    /\ last.result.tag = "Ureq"

(***************************************************************************)
(* A caller that loads the credentials from the environment and gives them *)
(* to an Item and to a search request (checked under SpecEnv).             *)
(***************************************************************************)
OsValueChoices ==
    {None, Some(OsValue(FALSE, "key\\xFF")), Some(OsValue(TRUE, "")), Some(OsValue(TRUE, " ")),
     Some(OsValue(TRUE, "accesskey")), Some(OsValue(TRUE, "secretkey"))}

InitEnv ==
    /\ request = Recipes[1].request
    /\ ops = Recipes[1].ops
    /\ item \in {Item_new(TestIdentifier),
                 Result("Ok", Item_with_credentials(TestItem, Some(Credentials_new("old", "old"))))}
    /\ pc = "env"
    /\ cursor = None
    /\ http = <<>>
    /\ pages = <<>>
    /\ last = Idle
    /\ env \in [EnvNames -> OsValueChoices]
    /\ ureq_req = None
    /\ attached = <<>>
    /\ server = <<>>

\* `Credentials::try_from_env()`
TryFromEnv ==
    /\ pc = "env"
    /\ last' = [op |-> "try_from_env", result |-> try_from_env(env)]
    /\ pc' = "loaded"
    /\ UNCHANGED <<request, item, ops, cursor, http, pages, env, ureq_req, attached, server>>

\* `item.with_credentials(loaded)`
ItemWithCredentials ==
    /\ pc = "loaded"
    /\ item' = Result("Ok", Item_with_credentials(item.v, last.result))
    /\ UNCHANGED <<request, ops, pc, cursor, http, pages, last, env, ureq_req, attached, server>>

\* `request.with_credentials(loaded)`
RequestWithCredentials ==
    /\ pc = "loaded"
    /\ request' = with_credentials(request, last.result)
    /\ UNCHANGED <<item, ops, pc, cursor, http, pages, last, env, ureq_req, attached, server>>

NextEnv ==
    \/ TryFromEnv
    \/ ItemWithCredentials
    \/ RequestWithCredentials

SpecEnv == InitEnv /\ [][NextEnv]_vars

Loaded == pc = "loaded"
IsSet(key) == IsSome(env[key])
NonEmpty(key) == IsSet(key) /\ Unwrap(env[key]).text # ""
IsUnicode(key) == IsSet(key) /\ Unwrap(env[key]).unicode
BothValues ==
    Some([access |-> Unwrap(env["AWS_ACCESS_KEY_ID"]).text,
          secret |-> Unwrap(env["AWS_SECRET_ACCESS_KEY"]).text])

\* C13 as stated: loading returns the Credentials holding the two values
\* when both variables are set and non-empty, and None when either is unset
\* or empty.
C13_AsStated ==
    Loaded => last.result = IF \A key \in EnvNames : NonEmpty(key) THEN BothValues ELSE None

\* C13 (amended): loading returns the Credentials holding the two values
\* when both variables are set to non-empty valid Unicode, and None when
\* either is unset, empty or not valid Unicode, whatever the other is.
C13_LoadsValidPair ==
    Loaded => last.result = IF \A key \in EnvNames : NonEmpty(key) /\ IsUnicode(key)
                            THEN BothValues ELSE None

C13_Witness ==
    /\ Loaded
    /\ env["AWS_ACCESS_KEY_ID"] = Some(OsValue(TRUE, "accesskey"))
    /\ env["AWS_SECRET_ACCESS_KEY"] = Some(OsValue(TRUE, "secretkey"))
    /\ last.result = Some(Credentials("accesskey", "secretkey"))
    /\ item.v.credentials = last.result

(***************************************************************************)
(* A caller that attaches headers to a ureq::Request, as Item::upload_file *)
(* and tasks::log do: Header values through set_header, and Credentials    *)
(* made by Credentials::new through their conversion into a Header         *)
(* (checked under SpecHeaders).                                            *)
(***************************************************************************)
FlagVariants ==
    {"XAutoMakeBucket", "XCascadeDelete", "XIgnorePreexistingBucket", "XKeepOldVersion",
     "XQueueDerive"}

HeaderChoices ==
    {Header(v, b) : v \in FlagVariants, b \in BOOLEAN}
    \cup {Header("ContentLength", 12), Header("XSizeHint", 12),
          Header("ContentType", "text/plain"), Header("ContentMd5", "md5sum"),
          Header("XMeta", [name |-> "collection", value |-> "test_collection"]),
          Header("XMeta", [name |-> "size-hint", value |-> "12"]),
          Header("Custom", <<"authorization", "Basic abc">>),
          Header("Custom", <<"x-archive-queue-derive", "0">>)}

KeyChoices == {<<"accesskey", "secretkey">>, <<"", "">>}

InitHeaders ==
    /\ request = Recipes[1].request
    /\ ops = Recipes[1].ops
    /\ item = NoItem
    /\ pc = "attach"
    /\ cursor = None
    /\ http = <<>>
    /\ pages = <<>>
    /\ last = Idle
    /\ env = EmptyEnv
    /\ ureq_req = Some([method |-> "PUT", url |-> "https://s3.us.archive.org/test_item/"
                                                    \o TEST_FILEPATH,
                        headers |-> <<>>, query |-> <<>>])
    /\ attached = <<>>
    /\ server = <<>>

Attaching == pc = "attach" /\ Len(attached) < MaxHeaders

\* `req.set_header(header)`
SetHeader ==
    /\ Attaching
    /\ \E header \in HeaderChoices :
        /\ ureq_req' = Some(set_header(Unwrap(ureq_req), header))
        /\ attached' = Append(attached, header)
        /\ last' = [op |-> "set_header", result |-> header]
    /\ UNCHANGED <<request, item, ops, pc, cursor, http, pages, env, server>>

\* `req.set_header((&Credentials::new(access, secret)).into())`
SetCredentials ==
    /\ Attaching
    /\ \E keys \in KeyChoices :
        /\ ureq_req' = Some(SetAuthorization(Unwrap(ureq_req), Credentials_new(keys[1], keys[2])))
        /\ attached' = Append(attached, HeaderFromCredentials(Credentials_new(keys[1], keys[2])))
        /\ last' = [op |-> "credentials", result |-> Credentials_new(keys[1], keys[2])]
    /\ UNCHANGED <<request, item, ops, pc, cursor, http, pages, env, server>>

NextHeaders ==
    \/ SetHeader
    \/ SetCredentials

SpecHeaders == InitHeaders /\ [][NextHeaders]_vars

\* The header lines of the request being built, those of one name, and the
\* line a Header value renders to on a request without headers.
Lines == Unwrap(ureq_req).headers
LinesNamed(name) == SelectSeq(Lines, LAMBDA h : h[1] = name)
Rendered(header) ==
    set_header([method |-> "GET", url |-> "", headers |-> <<>>, query |-> <<>>],
               header).headers[1]
CredentialsAttached == pc = "attach" /\ Len(attached) > 0 /\ last.op = "credentials"
HeaderAttached == pc = "attach" /\ Len(attached) > 0 /\ last.op = "set_header"

\* C14: after Credentials made from any pair of keys (empty ones included)
\* are converted and attached, the Header is the Authorization variant with
\* the same access and secret, and the request carries exactly one line
\* named "authorization", the last one, with the value "LOW access:secret".
C14_CredentialsToAuthorization ==
    CredentialsAttached =>
        /\ attached[Len(attached)] =
              Header("Authorization", [access |-> last.result.access,
                                       secret |-> last.result.secret])
        /\ LinesNamed("authorization") =
              << <<"authorization", "LOW " \o last.result.access \o ":" \o last.result.secret>> >>
        /\ Lines[Len(Lines)][1] = "authorization"

C14_Witness ==
    /\ CredentialsAttached
    /\ Len(attached) = 3
    /\ attached[1] = Header("Authorization", [access |-> "", secret |-> ""])
    /\ attached[2] = Header("Custom", <<"authorization", "Basic abc">>)
    /\ last.result = Credentials("accesskey", "secretkey")
    /\ Lines = << <<"authorization", "LOW accesskey:secretkey">> >>

\* The wire names of the boolean flags.
FlagWireName ==
    [ XAutoMakeBucket |-> "x-amz-auto-make-bucket",
      XCascadeDelete |-> "x-archive-cascade-delete",
      XIgnorePreexistingBucket |-> "x-archive-ignore-preexisting-bucket",
      XKeepOldVersion |-> "x-archive-keep-old-version",
      XQueueDerive |-> "x-archive-queue-derive" ]

\* C15: attaching one of the five boolean flags adds, as the last line of the
\* request, the wire name of that flag with the value "1" for true and "0"
\* for false.
C15_FlagsRenderOneZero ==
    (HeaderAttached /\ last.result.variant \in FlagVariants) =>
        Lines[Len(Lines)] = << FlagWireName[last.result.variant],
                               IF last.result.payload THEN "1" ELSE "0" >>

C15_Witness ==
    /\ HeaderAttached
    /\ attached = << Header("XCascadeDelete", TRUE), Header("XIgnorePreexistingBucket", FALSE) >>
    /\ Lines = << <<"x-archive-cascade-delete", "1">>,
                  <<"x-archive-ignore-preexisting-bucket", "0">> >>

\* C16: any two attached Header values of different variants, neither of
\* them Custom, render to different wire names.
C16_WireNamesDistinct ==
    \A i, j \in 1..Len(attached) :
        (/\ attached[i].variant # attached[j].variant
         /\ attached[i].variant # "Custom"
         /\ attached[j].variant # "Custom")
        => Rendered(attached[i])[1] # Rendered(attached[j])[1]

C16_Witness ==
    /\ pc = "attach"
    /\ attached = << Header("XMeta", [name |-> "size-hint", value |-> "12"]),
                     Header("XSizeHint", 12), Header("ContentLength", 12) >>
    /\ Lines = << <<"x-archive-meta-size-hint", "12">>, <<"x-archive-size-hint", "12">>,
                  <<"content-length", "12">> >>

\* The attached Header values have pairwise different wire names.
NamesDiffer(headers) ==
    \A i, j \in 1..Len(headers) : i # j => Rendered(headers[i])[1] # Rendered(headers[j])[1]

\* C17: attaching a Header leaves the lines of every other wire name as they
\* were, values and order; and when the attached Header values have pairwise
\* different wire names the request carries one line per Header value, in
\* the order of attachment.
C17_OtherHeadersKept ==
    [][ pc' = "attach" =>
          /\ SelectSeq(Unwrap(ureq_req').headers,
                       LAMBDA h : h[1] # Rendered(attached'[Len(attached')])[1])
               = SelectSeq(Unwrap(ureq_req).headers,
                           LAMBDA h : h[1] # Rendered(attached'[Len(attached')])[1])
          /\ NamesDiffer(attached') =>
                Unwrap(ureq_req').headers = [i \in 1..Len(attached') |-> Rendered(attached'[i])]
      ]_vars

C17_Witness ==
    /\ pc = "attach"
    /\ attached = << Header("XQueueDerive", TRUE),
                     Header("Authorization", [access |-> "accesskey", secret |-> "secretkey"]),
                     Header("XMeta", [name |-> "collection", value |-> "test_collection"]) >>
    /\ Lines = << <<"x-archive-queue-derive", "1">>,
                  <<"authorization", "LOW accesskey:secretkey">>,
                  <<"x-archive-meta-collection", "test_collection">> >>

(***************************************************************************)
(* The builder applied to a new request and to one that already holds a    *)
(* filter of every kind (checked under SpecFilters).  `ops.n` counts the   *)
(* builder calls made from there on.                                       *)
(***************************************************************************)
RECURSIVE FilteredAll(_, _)
FilteredAll(b, i) ==
    IF i > Len(FilterKinds) THEN b
    ELSE FilteredAll(Filtered(b, Filter(FilterKinds[i],
                                        CHOOSE p \in FilterPayloads(FilterKinds[i]) : TRUE)),
                     i + 1)

InitFilters ==
    /\ \E b \in {Fresh(0), FilteredAll(Fresh(1), 1)} :
         /\ request = b.request
         /\ ops = [b.ops EXCEPT !.n = 0]
    /\ item = NoItem
    /\ pc = "build"
    /\ cursor = None
    /\ http = <<>>
    /\ pages = <<>>
    /\ last = Idle
    /\ env = EmptyEnv
    /\ ureq_req = None
    /\ attached = <<>>
    /\ server = <<>>

SpecFilters == InitFilters /\ [][NextBuild]_vars

WireKeys == {FilterKey(k) : k \in FilterKindSet}
\* The entry a mapping holds under the wire key of a kind, if any.
Entry(filters, k) ==
    IF FilterKey(k) \in DOMAIN filters THEN Some(filters[FilterKey(k)]) ELSE None

\* C18: the eleven kinds have eleven different wire keys; the mapping holds
\* an entry under the key of exactly the kinds given to with_filter, so at
\* most one per kind and at most eleven; and a builder call leaves the entry
\* of every kind it was not given as it was.
C18_OneEntryPerKind ==
    [][ /\ Cardinality(WireKeys) = 11
        /\ DOMAIN request'.filters \subseteq WireKeys
        /\ Cardinality(DOMAIN request'.filters) <= 11
        /\ \A k \in FilterKindSet :
              /\ IsSome(Entry(request'.filters, k)) <=> ops'.given[k] # <<>>
              /\ ops'.given[k] = ops.given[k]
                    => Entry(request'.filters, k) = Entry(request.filters, k)
      ]_vars

C18_Witness ==
    /\ pc = "build"
    /\ ops.n = 2
    /\ Cardinality(DOMAIN request.filters) = 11
    /\ Len(ops.given["SubmitTimeGte"]) = 3
    /\ \A k \in FilterKindSet \ {"SubmitTimeGte"} : Len(ops.given[k]) = 1
    /\ request.filters["submittime>="] = "2021-06-30 12:00:00"
    /\ request.filters["submittime>"] = ops.given["SubmitTimeGt"][1]

(***************************************************************************)
(* Claims about the request call() sends (checked under Spec).             *)
(***************************************************************************)
\* The pairs of a sent request under one query parameter, in order.
QueryPairsNamed(req, param) == SelectSeq(req.query, LAMBDA q : q[1] = param)
OneZero(b) == IF b THEN "1" ELSE "0"
\* The limits the requests of Recipes hold, as decimal text.
LimitText(n) == CASE n = 0 -> "0" [] n = 50 -> "50" [] n = 500 -> "500"

\* C19: the request a call sends is a GET to the search URL whose query
\* holds each entry of the filter mapping once, summary, catalog and history
\* as "1" or "0", the stored limit in decimal, and nothing else but the
\* cursor: in the pagination loop, exactly the cursor passed when one was
\* passed, and no cursor parameter otherwise.
C19_QueryOfCall ==
    [][ LET sent == http'[Len(http')]
        IN  /\ sent.method = "GET"
            /\ sent.url = "https://archive.org/services/tasks.php"
            /\ \A key \in DOMAIN request.filters :
                  QueryPairsNamed(sent, key) = << <<key, request.filters[key]>> >>
            /\ QueryPairsNamed(sent, "summary") = << <<"summary", OneZero(request.summary)>> >>
            /\ QueryPairsNamed(sent, "catalog") = << <<"catalog", OneZero(request.catalog)>> >>
            /\ QueryPairsNamed(sent, "history") = << <<"history", OneZero(request.history)>> >>
            /\ QueryPairsNamed(sent, "limit") = << <<"limit", LimitText(request.limit)>> >>
            /\ Len(sent.query) = Cardinality(DOMAIN request.filters) + 4
                                  + Len(QueryPairsNamed(sent, "cursor"))
            /\ Len(QueryPairsNamed(sent, "cursor")) <= 1
            /\ pc = "loop" =>
                  QueryPairsNamed(sent, "cursor") =
                      IF IsSome(cursor) THEN << <<"cursor", Unwrap(cursor)>> >> ELSE <<>>
      ]_vars

C19_Witness ==
    /\ pc = "loop"
    /\ Len(http) = 2
    /\ QueryPairsNamed(http[1], "cursor") = <<>>
    /\ http[2].query = << <<"task_id", "1234">>, <<"wait_admin", "9">>, <<"summary", "1">>,
                          <<"catalog", "0">>, <<"history", "0">>, <<"limit", "0">>,
                          <<"cursor", "abc">> >>

\* The request asks for history without an Identifier or TaskId filter; the
\* request holds an Identifier filter with a wildcard.
HistoryUnbacked ==
    request.history /\ {"identifier", "task_id"} \cap DOMAIN request.filters = {}
WildcardIdentifiers == {"te*t_%"}
IdentifierWildcarded ==
    "identifier" \in DOMAIN request.filters /\ request.filters["identifier"] \in WildcardIdentifiers
\* The server answered with a success status and a body that decodes.
CleanAnswer ==
    BodyDecoded /\ LastBody.envelope = "ok" /\ LastBody.shape \in {"object", "empty_array"}

\* C20: a call on a request that asks for history without an Identifier or
\* TaskId filter, or whose Identifier holds `*` or `%`, sends its request all
\* the same, with history as "1" when asked for and the identifier as given;
\* a clean answer of the server is returned as Ok, and a rejection by the
\* server (a status error) comes back as the Ureq or Forbidden error of
\* that status.
C20_NoLocalValidation ==
    [][ (HistoryUnbacked \/ IdentifierWildcarded) =>
          /\ Len(http') = Len(http) + 1
          /\ request.history =>
                QueryPairsNamed(http'[Len(http')], "history") = << <<"history", "1">> >>
          /\ IdentifierWildcarded =>
                QueryPairsNamed(http'[Len(http')], "identifier")
                    = << <<"identifier", request.filters["identifier"]>> >>
          /\ CleanAnswer' => last'.result.tag = "Ok"
          /\ StatusFailed' =>
                last'.result = IF last'.outcome.code = 403
                               THEN Result("Forbidden", last'.outcome.body)
                               ELSE Result("Ureq", [kind |-> "Status", code |-> last'.outcome.code,
                                                    body |-> last'.outcome.body])
      ]_vars

C20_Witness ==
    /\ HistoryUnbacked
    /\ Len(http) = 1
    /\ QueryPairsNamed(http[1], "history") = << <<"history", "1">> >>
    /\ QueryPairsNamed(http[1], "submitter") = << <<"submitter", "*@example.org">> >>
    /\ StatusFailed
    /\ last.outcome.code = 400
    /\ last.result.tag = "Ureq"

(***************************************************************************)
(* Claims about the State filter and the user-agent (checked under         *)
(* SpecBuild and SpecOps).                                                 *)
(***************************************************************************)
WaitAdminText == [Queued |-> "0", Running |-> "1", Error |-> "2", Paused |-> "9"]
StateGiven == ops.given["State"] # <<>>

\* C21: after with_filter(State(s)) the value stored under wait_admin is the
\* decimal text of Status::wait_admin of s (0, 1, 2, 9 for Queued, Running,
\* Error, Paused), and a status given before renders to the stored value
\* exactly when it is the status given last.
C21_StateIsWaitAdmin ==
    StateGiven =>
        /\ request.filters["wait_admin"] = WaitAdminText[LastGiven("State")]
        /\ request.filters["wait_admin"] = UsizeToString(wait_admin(LastGiven("State")))
        /\ \A i \in 1..Len(ops.given["State"]) :
              StatusToString(ops.given["State"][i]) = request.filters["wait_admin"]
                  <=> ops.given["State"][i] = LastGiven("State")

C21_Witness ==
    /\ ops.given["State"] = <<"Error", "Running", "Paused">>
    /\ request.filters["wait_admin"] = "9"

(***************************************************************************)
(* Two pagination loops run side by side, each on its own request with its *)
(* own credentials and its own local `cursor` (checked under SpecThreads). *)
(* In this specification request, cursor, pc, pages and last hold one      *)
(* value per thread, and http holds the requests of both threads in the    *)
(* order they were sent.  The server answers a request by what it asks     *)
(* for: the sequence (told apart by its filters) and the cursor.           *)
(***************************************************************************)
Threads == {1, 2}

ThreadRequests ==
    << Recipes[2].request,
       with_credentials(Recipes[4].request, Some(Credentials_new("otherkey", "othersecret"))) >>

ServerCursors == {None, Some("a"), Some("b")}
\* The answers to a request of sequence d: a page with catalog entries and a
\* cursor ("a" for the first sequence, "b" for the second), an empty last
\* page, or a server error.
ServerAnswers(d) ==
    {Outcome(FALSE, 200, "ok", IF d = 1 THEN 10 ELSE 9), Outcome(FALSE, 200, "ok", 1),
     Outcome(FALSE, 500, "ok", 1)}

\* What a sent request asks for.
Dataset(sent) == IF QueryPairsNamed(sent, "identifier") # <<>> THEN 1 ELSE 2
CursorOf(sent) ==
    IF QueryPairsNamed(sent, "cursor") = <<>> THEN None
    ELSE Some(QueryPairsNamed(sent, "cursor")[1][2])
Answer(sent) == server[<<Dataset(sent), CursorOf(sent)>>]

InitThreads ==
    /\ request = [t \in Threads |-> ThreadRequests[t]]
    /\ item = NoItem
    /\ ops = NoOps
    /\ pc = [t \in Threads |-> "loop"]
    /\ cursor = [t \in Threads |-> None]
    /\ http = <<>>
    /\ pages = [t \in Threads |-> <<>>]
    /\ last = [t \in Threads |-> Idle]
    /\ env = EmptyEnv
    /\ ureq_req = None
    /\ attached = <<>>
    /\ server \in {f \in [Threads \X ServerCursors -> UNION {ServerAnswers(d) : d \in Threads}] :
                        \A key \in Threads \X ServerCursors : f[key] \in ServerAnswers(key[1])}

\* What a thread keeps of a call: the cursor it passed and the result.
ThreadPage(cur, result) == [cursor |-> cur, result |-> result]

ThreadLoopBodySharedCursor(t, sent, o, result) ==
    /\ http' = Append(http, [thread |-> t, sent |-> sent])
    /\ request' = [request EXCEPT ![t] = CallSelf(request[t], cursor[t])]
    /\ last' = [last EXCEPT ![t] = [outcome |-> o, result |-> result]]
    /\ pages' = [pages EXCEPT ![t] = Append(@, ThreadPage(cursor[t], result))]
    /\ IF result.tag # "Ok"
       THEN pc' = [pc EXCEPT ![t] = "failed"] /\ cursor' = cursor
       ELSE /\ cursor' = [u \in Threads |-> result.v.cursor]
            /\ pc' = [pc EXCEPT ![t] = IF IsNone(result.v.cursor) THEN "done" ELSE "loop"]

\* One iteration of the loop of thread t (as LoopBody).
ThreadLoopBody(t, sent, o, result) ==
    /\ http' = Append(http, [thread |-> t, sent |-> sent])
    /\ request' = [request EXCEPT ![t] = CallSelf(request[t], cursor[t])]
    /\ last' = [last EXCEPT ![t] = [outcome |-> o, result |-> result]]
    /\ pages' = [pages EXCEPT ![t] = Append(@, ThreadPage(cursor[t], result))]
    /\ IF result.tag # "Ok"
       THEN pc' = [pc EXCEPT ![t] = "failed"] /\ cursor' = cursor
       ELSE /\ cursor' = [cursor EXCEPT ![t] = result.v.cursor]
            /\ pc' = [pc EXCEPT ![t] = IF IsNone(result.v.cursor) THEN "done" ELSE "loop"]

ThreadAnswered(t, sent, o) == ThreadLoopBody(t, sent, o, CallResult(o))

ThreadCall(t) ==
    /\ pc[t] = "loop"
    /\ Len(pages[t]) < MaxCalls
    /\ ThreadAnswered(t, CallRequest(request[t], cursor[t]),
                      Answer(CallRequest(request[t], cursor[t])))
    /\ UNCHANGED <<item, ops, env, ureq_req, attached, server>>

NextThreads ==
    \/ ThreadCall(1)
    \/ ThreadCall(2)

SpecThreads == InitThreads /\ [][NextThreads]_vars

\* The pages the loop of thread t collects when it runs alone against the
\* same server, from cursor `cur` on, after n calls.
RECURSIVE AloneFrom(_, _, _)
RECURSIVE AloneNext(_, _, _, _)
AloneNext(t, cur, n, result) ==
    <<ThreadPage(cur, result)>>
    \o (IF result.tag = "Ok" /\ IsSome(result.v.cursor)
        THEN AloneFrom(t, result.v.cursor, n + 1) ELSE <<>>)
AloneFrom(t, cur, n) ==
    IF n >= MaxCalls THEN <<>>
    ELSE AloneNext(t, cur, n, CallResult(Answer(CallRequest(ThreadRequests[t], cur))))

\* The requests thread t has sent, in order.
SentBy(t) == SelectSeq(http, LAMBDA h : h.thread = t)
ThreadFinished(t) == pc[t] # "loop" \/ Len(pages[t]) = MaxCalls

\* `got` is the start of `alone`, and all of it when the thread has finished.
StartOf(got, alone, finished) ==
    /\ Len(got) <= Len(alone)
    /\ got = SubSeq(alone, 1, Len(got))
    /\ finished => Len(got) = Len(alone)

\* C22: in every interleaving of the two loops, each thread has sent as many
\* requests as it made calls, each of them built from its own request and
\* from no cursor (first call) or the cursor of its own previous response;
\* its calls and results so far are those of the loop run alone, and when
\* it has finished they are all of them.
C22_ThreadsIndependent ==
    \A t \in Threads :
        /\ Len(SentBy(t)) = Len(pages[t])
        /\ \A i \in 1..Len(pages[t]) :
              /\ pages[t][i].cursor =
                    (IF i = 1 THEN None ELSE pages[t][i - 1].result.v.cursor)
              /\ SentBy(t)[i].sent = CallRequest(ThreadRequests[t], pages[t][i].cursor)
        /\ StartOf(pages[t], AloneFrom(t, None, 0), ThreadFinished(t))

C22_Witness ==
    /\ pc = [t \in Threads |-> "done"]
    /\ Len(http) = 4
    /\ <<http[1].thread, http[2].thread, http[3].thread, http[4].thread>> = <<1, 2, 2, 1>>
    /\ CursorOf(http[3].sent) = Some("b")
    /\ CursorOf(http[4].sent) = Some("a")
    /\ HeaderValues(http[3].sent, "authorization") = {"LOW otherkey:othersecret"}
    /\ HeaderValues(http[4].sent, "authorization") = {"LOW accesskey:secretkey"}

(***************************************************************************)
(* Construction of items.  The repository holds two Item types: the one of *)
(* src/src/item.rs, whose constructor validates the identifier, and the    *)
(* one of src/src/lib.rs, whose constructor accepts every identifier and   *)
(* whose upload_file builds the request from it.  A caller constructs an   *)
(* item of either type from an identifier, configures it with the builder  *)
(* methods and, with the item of lib.rs, uploads a file.                   *)
(***************************************************************************)
RECURSIVE Repeat(_, _)
Repeat(c, n) == IF n = 0 THEN <<>> ELSE <<c>> \o Repeat(c, n - 1)

IdentifierChoices ==
    << <<>>,
       Repeat("a", MAX_IDENTIFIER_LEN + 1),
       Repeat("a", MAX_IDENTIFIER_LEN),
       <<"_", "x">>,
       <<"a", "*">>,
       <<"a", "b", " ", "c">>,
       TestIdentifier,
       <<"9", "-", ".", "_", "Z">>,
       <<"Z">>,
       <<"é", "a">>,
       <<"a">> \o Repeat("é", 50) >>

\* crate::Item::new of src/src/lib.rs
LibItem_new(ident) ==
    [ identifier |-> Chars(ident),
      credentials |-> None,
      keep_old_versions |-> FALSE,
      auto_make_bucket |-> TRUE,
      use_test_collection |-> FALSE,
      useragent |-> DEFAULT_USER_AGENT ]

\* crate::Item::upload_file of src/src/lib.rs: the request sent, and the
\* result for an outcome.
LibUploadRequest(self, derive, initial_meta, filepath, data_len) ==
    LET r0 == [method |-> "PUT",
               url |-> "https://s3.us.archive.org/" \o self.identifier \o "/" \o filepath,
               headers |-> <<>>, query |-> <<>>]
        r1 == Set(r0, "user-agent", self.useragent)
        r2 == set_header(r1, Header("XKeepOldVersion", self.keep_old_versions))
        r3 == set_header(r2, Header("XAutoMakeBucket", self.auto_make_bucket))
        r4 == set_header(r3, Header("XQueueDerive", derive))
        r5 == set_header(r4, Header("XSizeHint", data_len))
        r6 == SetMeta(r5, initial_meta)
    IN  IF IsSome(self.credentials) THEN SetAuthorization(r6, Unwrap(self.credentials)) ELSE r6

LibUploadResult(o) == ItemTry(UreqCall(o), Result("Ok", o))

\* upload_file hands the response back unread: the outcomes that differ for
\* it are a transport failure, an error status and a success.
LibUploadOutcomes ==
    {o \in OpOutcomes : o.read = "ok" /\ o.length = None /\ (o.code = 200 => o.valid)}

InitItem ==
    /\ request = Recipes[1].request
    /\ ops = [module |-> "none", ident |-> <<>>]
    /\ item = NoItem
    /\ pc = "new"
    /\ cursor = None
    /\ http = <<>>
    /\ pages = <<>>
    /\ last = [op |-> "none", outcome |-> "none", result |-> "none"]
    /\ env = EmptyEnv
    /\ ureq_req = None
    /\ attached = <<>>
    /\ server = <<>>

Constructed(module, ident, made) ==
    /\ item' = made
    /\ ops' = [module |-> module, ident |-> ident]
    /\ pc' = "made"
    /\ last' = [op |-> "new", outcome |-> "none", result |-> made]
    /\ UNCHANGED <<request, cursor, http, pages, env, ureq_req, attached, server>>

\* `Item::new(ident)` of item.rs
ItemNew ==
    /\ pc = "new"
    /\ \E i \in 1..Len(IdentifierChoices) :
        Constructed("item", IdentifierChoices[i], Item_new(IdentifierChoices[i]))

\* `Item::new(ident)` of lib.rs
LibItemNew ==
    /\ pc = "new"
    /\ \E i \in 1..Len(IdentifierChoices) :
        Constructed("lib", IdentifierChoices[i], Result("Ok", LibItem_new(IdentifierChoices[i])))

Configured(op, made) ==
    /\ item' = Result("Ok", made)
    /\ last' = [op |-> op, outcome |-> "none", result |-> made]
    /\ UNCHANGED <<request, ops, pc, cursor, http, pages, env, ureq_req, attached, server>>

\* The builder methods, the same in both files, on an item that exists and
\* has not been used yet.
Configuring == pc = "made" /\ item.tag = "Ok" /\ http = <<>>

ItemWithUseragent ==
    /\ Configuring
    /\ \E useragent \in UseragentChoices :
        Configured("with_useragent", Item_with_useragent(item.v, useragent))

ItemWithKeys ==
    /\ Configuring
    /\ \E credentials \in {None, Some(ExampleCredentials)} :
        Configured("with_credentials", Item_with_credentials(item.v, credentials))

ItemWithFlags ==
    /\ Configuring
    /\ \E keep_old_versions \in BOOLEAN, auto_make_bucket \in BOOLEAN :
        Configured("with_flags",
                   Item_with_auto_make(Item_with_keep_old_versions(item.v, keep_old_versions),
                                       auto_make_bucket))

\* `item.upload_file(derive, initial_meta, filepath, data)` of lib.rs
LibUploadFile ==
    /\ pc = "made"
    /\ ops.module = "lib"
    /\ Len(http) < MaxOpCalls
    /\ \E derive \in BOOLEAN, initial_meta \in MetaChoices, o \in LibUploadOutcomes :
        /\ http' = Append(http, LibUploadRequest(item.v, derive, initial_meta, TEST_FILEPATH, 12))
        /\ last' = [op |-> "upload_file", outcome |-> o, result |-> LibUploadResult(o)]
        /\ UNCHANGED <<request, item, ops, pc, cursor, pages, env, ureq_req, attached, server>>

NextItem ==
    \/ ItemNew
    \/ LibItemNew
    \/ ItemWithUseragent
    \/ ItemWithKeys
    \/ ItemWithFlags
    \/ LibUploadFile

SpecItem == InitItem /\ [][NextItem]_vars

(***************************************************************************)
(* C23                                                                     *)
(***************************************************************************)
\* The rules of an identifier as the documentation states them, counted in
\* characters.
Empty(ident) == Len(ident) = 0
TooLong(ident) == Len(ident) > 100
BadFirst(ident) == Len(ident) > 0 /\ ident[1] \notin AsciiAlphanumeric
BadLater(ident) ==
    \E i \in 2..Len(ident) : ident[i] \notin AsciiAlphanumeric \cup {"_", "-", "."}
Malformed(ident) == Empty(ident) \/ TooLong(ident) \/ BadFirst(ident) \/ BadLater(ident)

MadeByItemNew == pc = "made" /\ ops.module = "item"

\* C23: Item::new(ident) of item.rs fails with InvalidIdentifier(ident)
\* exactly when validate_identifier(ident) is false, which is exactly when
\* the identifier is empty, longer than 100 characters, starts with a
\* character that is not ASCII alphanumeric or has a later character
\* outside the ASCII alphanumerics, '_', '-' and '.'; no request has been
\* sent when it fails and none is ever sent for the failed construction;
\* for every other identifier it gives an item holding the identifier, no
\* credentials, keep_old_versions false, auto_make_bucket true and the
\* default user-agent.
C23_NewValidates ==
    MadeByItemNew =>
        /\ validate_identifier(ops.ident) <=> ~Malformed(ops.ident)
        /\ item.tag = "InvalidIdentifier" <=> ~validate_identifier(ops.ident)
        /\ item.tag = "InvalidIdentifier" <=> Malformed(ops.ident)
        /\ item.tag = "InvalidIdentifier" => item.v = Chars(ops.ident) /\ http = <<>>
        /\ item.tag # "InvalidIdentifier" =>
            /\ item.tag = "Ok"
            /\ item.v.identifier = Chars(ops.ident)
            /\ last.op = "new" =>
                /\ item.v.credentials = None
                /\ item.v.keep_old_versions = FALSE
                /\ item.v.auto_make_bucket = TRUE
                /\ item.v.useragent = DEFAULT_USER_AGENT

\* Item::new has rejected an identifier whose third character is a space and
\* returned the text it was given.
C23_Witness ==
    /\ MadeByItemNew
    /\ last.op = "new"
    /\ ops.ident = <<"a", "b", " ", "c">>
    /\ ~validate_identifier(ops.ident)
    /\ item = Result("InvalidIdentifier", "ab c")
    /\ http = <<>>

(***************************************************************************)
(* C24                                                                     *)
(***************************************************************************)
UploadedByLibItem == pc = "made" /\ ops.module = "lib" /\ last.op = "upload_file"

\* C24: upload_file on an item of lib.rs whose identifier fails
\* validate_identifier returns ItemError::InvalidIdentifier and sends no
\* request.
C24_UploadRejectsInvalid ==
    UploadedByLibItem /\ ~validate_identifier(ops.ident) =>
        /\ last.result.tag = "InvalidIdentifier"
        /\ http = <<>>

(***************************************************************************)
(* The user-agent.  A caller sets the user-agent of a search request and   *)
(* of an item any number of times, retrieves a task log with an optional   *)
(* user-agent, and sends the search call and an upload.                    *)
(***************************************************************************)
InitAgent ==
    /\ request = Recipes[1].request
    /\ ops = Recipes[1].ops
    /\ item = Item_new(TestIdentifier)
    /\ pc = "agent"
    /\ cursor = None
    /\ http = <<>>
    /\ pages = <<>>
    /\ last = [op |-> "none", arg |-> None, outcome |-> "none", result |-> "none"]
    /\ env = EmptyEnv
    /\ ureq_req = None
    /\ attached = <<>>
    /\ server = <<>>

AgentSending == pc = "agent" /\ Len(http) < MaxOpCalls

AgentSent(op, arg, sent, o, result) ==
    /\ http' = Append(http, sent)
    /\ last' = [op |-> op, arg |-> arg, outcome |-> o, result |-> result]
    /\ UNCHANGED <<request, item, ops, pc, cursor, pages, env, ureq_req, attached, server>>

\* `request = request.with_useragent(useragent)`
AgentOfRequest ==
    /\ pc = "agent"
    /\ \E useragent \in UseragentChoices :
        /\ request' = with_useragent(request, useragent)
        /\ last' = [op |-> "Request::with_useragent", arg |-> useragent,
                    outcome |-> "none", result |-> "none"]
    /\ UNCHANGED <<item, ops, pc, cursor, http, pages, env, ureq_req, attached, server>>

\* `item = item.with_useragent(useragent)`
AgentOfItem ==
    /\ pc = "agent"
    /\ \E useragent \in UseragentChoices :
        /\ item' = Result("Ok", Item_with_useragent(item.v, useragent))
        /\ last' = [op |-> "Item::with_useragent", arg |-> useragent,
                    outcome |-> "none", result |-> "none"]
    /\ UNCHANGED <<request, ops, pc, cursor, http, pages, env, ureq_req, attached, server>>

\* `tasks::log(task_id, &creds, useragent)`
AgentOfLog ==
    /\ AgentSending
    /\ \E useragent \in UseragentChoices, o \in LibUploadOutcomes :
        AgentSent("log", useragent, LogRequest(1234, ExampleCredentials, useragent),
                  o, LogResult(o))

\* `request.call(None)`
AgentSearchCall ==
    /\ AgentSending
    /\ \E o \in Outcomes :
        AgentSent("search_call", None, CallRequest(request, None), o, CallResult(o))

\* `item.upload_file(derive, initial_meta, filepath, reader, size)`
AgentUploadFile ==
    /\ AgentSending
    /\ \E o \in LibUploadOutcomes :
        AgentSent("upload_file", None, UploadRequest(item.v, TRUE, <<>>, TEST_FILEPATH, 12),
                  o, UploadResult(o))

NextAgent ==
    \/ AgentOfRequest
    \/ AgentOfItem
    \/ AgentOfLog
    \/ AgentSearchCall
    \/ AgentUploadFile

SpecAgent == InitAgent /\ [][NextAgent]_vars

(***************************************************************************)
(* C25                                                                     *)
(***************************************************************************)
\* The user-agent the documentation promises for an argument.
Promised(useragent) ==
    IF useragent = None \/ useragent = Some("") THEN DEFAULT_USER_AGENT
    ELSE Unwrap(useragent)

UseragentSent(sent) == HeaderValues(sent, "user-agent")

\* C25: the user-agent sent is never empty.  A fresh request holds the
\* default; with_useragent(None) and with_useragent(Some("")) store the
\* default, whatever was stored before, and with_useragent(Some(s)) with a
\* non-empty s stores s, on a search request and on an item; tasks::log
\* sends the user-agent that rule gives for its argument; every request
\* sent carries exactly one user-agent, which is not empty, and the search
\* call and the upload send the stored one.
C25_UseragentNeverEmpty ==
    /\ request.useragent # ""
    /\ item.v.useragent # ""
    /\ \A i \in 1..Len(http) :
        /\ Cardinality(UseragentSent(http[i])) = 1
        /\ "" \notin UseragentSent(http[i])
    /\ last.op = "none" =>
        request.useragent = DEFAULT_USER_AGENT /\ item.v.useragent = DEFAULT_USER_AGENT
    /\ last.op = "Request::with_useragent" => request.useragent = Promised(last.arg)
    /\ last.op = "Item::with_useragent" => item.v.useragent = Promised(last.arg)
    /\ last.op = "log" => UseragentSent(http[Len(http)]) = {Promised(last.arg)}
    /\ last.op = "search_call" => UseragentSent(http[Len(http)]) = {request.useragent}
    /\ last.op = "upload_file" => UseragentSent(http[Len(http)]) = {item.v.useragent}

\* A search call has sent a custom user-agent, and with_useragent(Some(""))
\* on that request has stored the default again.
C25_Witness ==
    /\ Len(http) = 1
    /\ http[1].url = SEARCH_URL
    /\ UseragentSent(http[1]) = {"my-agent/1.0"}
    /\ last.op = "Request::with_useragent"
    /\ last.arg = Some("")
    /\ request.useragent = DEFAULT_USER_AGENT

(***************************************************************************)
(* C26                                                                     *)
(***************************************************************************)
\* Bodies whose `value` is an object with a valid cursor and a catalog with
\* an entry that does not decode: an entry lacking required fields before
\* and after the cursor, and an entry of unknown status after a valid one.
CursorWithBrokenMember ==
    << OtherBody(TRUE, JsonObject(<<CatalogOf(<<CatalogLacksFields>>), CursorMember("a")>>)),
       OtherBody(TRUE, JsonObject(<<CursorMember("a"), CatalogOf(<<CatalogLacksFields>>)>>)),
       OtherBody(TRUE, JsonObject(<<CatalogOf(<<Catalog1Json, CatalogUnknownStatus>>),
                                    CursorMember("b")>>)) >>

BrokenMemberDecoded ==
    BodyDecoded /\ \E k \in 1..Len(CursorWithBrokenMember) : LastBody = CursorWithBrokenMember[k]

\* C26: when `value` is an object with a valid cursor and one member that
\* fails to decode, the call returns a response with empty catalog, empty
\* history, absent summary and absent cursor, and the pagination loop ends
\* at that page as if it were the last.
C26_CursorDiscarded ==
    BrokenMemberDecoded =>
        /\ last.result.tag = "Ok"
        /\ AllDefaults(last.result.v)
        /\ pc # "free" => pc = "done"

(***************************************************************************)
(* C27                                                                     *)
(***************************************************************************)
\* The body of the last exchange is not an envelope: it is broken or lacks
\* `value`.
EnvelopeFailed == BodyDecoded /\ LastBody.envelope \in {"bad", "no_value"}

\* The exchange did not bring a body to decode: the transport failed, before
\* a status or while the body was read, or the status is an error.
ExchangeFailed ==
    Called /\ (last.outcome.transport \/ last.outcome.code >= 400 \/ last.outcome.read # "ok")

\* A decoded response carries the success flag of the body, and a body with
\* success = false whose envelope is well formed is not an error.
SuccessPassedThrough ==
    /\ (BodyDecoded /\ last.result.tag = "Ok") => last.result.v.success = LastBody.success
    /\ (BodyDecoded /\ LastBody.envelope = "ok" /\ ~LastBody.success) => last.result.tag = "Ok"

\* C27: the success flag of the envelope is never interpreted: a body that
\* decodes with success = false is returned as an Ok response whose success
\* field is false, and call returns an error only for a transport error, an
\* error status or a body that does not decode as an envelope.
C27_OnlyEnvelopeErrors ==
    /\ SuccessPassedThrough
    /\ (Called /\ last.result.tag # "Ok") => (ExchangeFailed \/ EnvelopeFailed)

(***************************************************************************)
(* Credentials of a search request.  A caller holding a request built in   *)
(* any of the ways of Recipes sets and removes its credentials and calls   *)
(* it in between.                                                          *)
(***************************************************************************)
KeyChoicesOfRequest ==
    {None, Some(ExampleCredentials), Some(Credentials_new("otherkey", "othersecret"))}

\* The answers tried: no connection, a 403, a page with a cursor, a last page.
KeyOutcomes ==
    {o \in Outcomes : \/ o.transport
                      \/ o.code = 403 /\ o.body = 1
                      \/ o.code = 200 /\ o.read = "ok" /\ o.body \in {1, 2}}

InitKeys ==
    /\ \E i \in 1..Len(Recipes) : request = Recipes[i].request /\ ops = Recipes[i].ops
    /\ item = NoItem
    /\ pc = "keys"
    /\ cursor = None
    /\ http = <<>>
    /\ pages = <<>>
    /\ last = [op |-> "none", arg |-> None, outcome |-> "none", result |-> "none"]
    /\ env = EmptyEnv
    /\ ureq_req = None
    /\ attached = <<>>
    /\ server = <<>>

\* `request = request.with_credentials(credentials)`
KeysOfRequest ==
    /\ pc = "keys"
    /\ \E credentials \in KeyChoicesOfRequest :
        /\ request' = with_credentials(request, credentials)
        /\ last' = [op |-> "with_credentials", arg |-> credentials,
                    outcome |-> "none", result |-> "none"]
    /\ UNCHANGED <<item, ops, pc, cursor, http, pages, env, ureq_req, attached, server>>

\* `request.call(None)`
KeysCall ==
    /\ pc = "keys"
    /\ Len(http) < MaxFreeCalls
    /\ \E o \in KeyOutcomes :
        /\ http' = Append(http, CallRequest(request, None))
        /\ request' = CallSelf(request, None)
        /\ last' = [op |-> "call", arg |-> None, outcome |-> o, result |-> CallResult(o)]
    /\ UNCHANGED <<item, ops, pc, cursor, pages, env, ureq_req, attached, server>>

NextKeys ==
    \/ KeysOfRequest
    \/ KeysCall

SpecKeys == InitKeys /\ [][NextKeys]_vars

(***************************************************************************)
(* C28                                                                     *)
(***************************************************************************)
AuthorizationSent(sent) == HeaderValues(sent, "authorization")

\* The authorization header of the documentation: "LOW access:secret".
AuthorizationOf(credentials) ==
    IF credentials = None THEN {}
    ELSE {"LOW " \o Unwrap(credentials).access \o ":" \o Unwrap(credentials).secret}

\* C28: a search call carries an authorization header exactly when the
\* request holds credentials at the time of the call, and the header is the
\* one rendered from them: a request that was never given credentials sends
\* none, after with_credentials(Some(c)) the calls send the header of c,
\* after a later with_credentials(None) they send none again; and
\* with_credentials changes no field of the request but the credentials.
C28_AuthorizationFollowsCredentials ==
    [][/\ last'.op = "call" =>
            /\ AuthorizationSent(http'[Len(http')]) = AuthorizationOf(request.credentials)
            /\ Len(http') = Len(http) + 1
            /\ request' = request
       /\ last'.op = "with_credentials" =>
            /\ request'.credentials = last'.arg
            /\ request' = [request EXCEPT !.credentials = last'.arg]
            /\ http' = http]_vars

\* A call sent the header of the credentials set before it, and after
\* with_credentials(None) the next call of the same request sent none.
C28_Witness ==
    /\ Len(http) = 2
    /\ AuthorizationSent(http[1]) = {"LOW accesskey:secretkey"}
    /\ AuthorizationSent(http[2]) = {}
    /\ request.credentials = None
    /\ request.limit = 0
    /\ last.op = "call"

====
